---- MODULE Spec2Model ----
(***************************************************************************)
(* daily-news: the ingestion-and-delivery pipeline.                        *)
(*                                                                         *)
(* DailyNewsCommand.execute runs FetchArticlesUseCase (fetch every enabled *)
(* feed with retry, filter by keywords, drop the read articles, sort,      *)
(* limit) and then NotifyArticlesUseCase (send to Discord with retry,      *)
(* append to the read-articles file, clean the file up).  One run is one   *)
(* process; a later run starts from the file the earlier one left.         *)
(*                                                                         *)
(* Strings are sequences of one-character strings, so that concatenation,  *)
(* lower-casing and substring search are computed.  SHA-256 is taken as    *)
(* injective: the id of an article is the hashed string itself.  Time is   *)
(* counted in days.  A failed file write leaves the file as it was.        *)
(***************************************************************************)
EXTENDS Integers, Sequences, FiniteSets, TLC

\* ------------------------------------------------------------------ bounds
\* number of runs of the command that are followed
MaxRuns == 2
\* largest configured MAX_RETRIES that is explored (0 .. MaxRetriesCfg)
MaxRetriesCfg == 2
\* largest MAX_RETRIES of the single run that RetrySpec follows (0 .. MaxAttempts)
MaxAttempts == 3
\* longest list of articles the first feed returns in ItemsSpec
MaxItems == 2
\* largest --max-articles value that is explored
MaxCap == 1
\* the clock takes the values StartDay .. StartDay + MaxDays
MaxDays == 1

\* ------------------------------------------------------- program constants
\* RETENTION_DAYS (a configured value; the default is 30)
RetentionDays == 2
\* RETRY_DELAY_MS, in milliseconds (the default)
RetryDelayMs == 1000
\* the retry-after header a rate-limited response carries, in seconds
RetryAfterSec == 2
\* the day of the first run: an article published RetentionDays - 1 days
\* earlier is the oldest that cleanup keeps
StartDay == RetentionDays + 1

\* ------------------------------------------------------------------ strings
None == <<>>

ToLowerCase(s) ==
  [i \in 1..Len(s) |->
     CASE s[i] = "G" -> "g"
       [] s[i] = "O" -> "o"
       [] s[i] = "R" -> "r"
       [] s[i] = "S" -> "s"
       [] s[i] = "X" -> "x"
       [] s[i] = "J" -> "j"
       [] OTHER -> s[i]]

\* String.prototype.includes
Includes(text, kw) ==
  \E i \in 0..(Len(text) - Len(kw)) : SubSeq(text, i + 1, i + Len(kw)) = kw

RECURSIVE Join(_, _)
\* Array.prototype.join
Join(parts, sep) ==
  IF parts = <<>> THEN <<>>
  ELSE IF Len(parts) = 1 THEN parts[1]
  ELSE parts[1] \o sep \o Join(Tail(parts), sep)

RECURSIVE Flat(_)
\* Array.prototype.flat
Flat(ss) == IF ss = <<>> THEN <<>> ELSE Head(ss) \o Flat(Tail(ss))

Range(s) == {s[i] : i \in 1..Len(s)}

\* the decimal digits, in order of value
Digits == <<"0", "1", "2", "3", "4", "5", "6", "7", "8", "9">>
IsDigit(c) == \E d \in 1..Len(Digits) : Digits[d] = c
DigitValue(c) == (CHOOSE d \in 1..Len(Digits) : Digits[d] = c) - 1

\* the header a server writes for a delay of n seconds, n < 10
ToDecimal(n) == <<Digits[n + 1]>>

\* the value parseInt and setTimeout take for "not a number"
NaN == 0 - 1

RECURSIVE ParseDigits(_, _)
ParseDigits(s, acc) ==
  IF s = <<>> \/ ~IsDigit(Head(s)) THEN acc
  ELSE ParseDigits(Tail(s), acc * 10 + DigitValue(Head(s)))

\* parseInt, on a string with no sign and no leading blank: the number its
\* leading digits spell, NaN when it starts with no digit
parseInt(s) == IF s = <<>> \/ ~IsDigit(Head(s)) THEN NaN ELSE ParseDigits(s, 0)

\* setTimeout fires at once for a delay that is not a number
delay(ms) == IF ms = NaN THEN 0 ELSE ms

\* ----------------------------------------------------------------- Article
\* Article.generateId: sha256(url + title)
generateId(url, title) == url \o title

\* new Article(title, url, publishedAt, feedName, description, content)
Article(title, url, publishedAt, feedName, description, content) ==
  [id |-> generateId(url, title), title |-> title, url |-> url,
   description |-> description, content |-> content,
   publishedAt |-> publishedAt, feedName |-> feedName]

\* Article.toPlainObject: the stored record has no content
toPlainObject(a) ==
  [id |-> a.id, title |-> a.title, url |-> a.url, description |-> a.description,
   publishedAt |-> a.publishedAt, feedName |-> a.feedName]

\* Article.fromPlainObject: the id is recomputed, a stored record has no content
fromPlainObject(o) ==
  Article(o.title, o.url, o.publishedAt, o.feedName, o.description, None)

\* ArticleDTO.fromDomain
fromDomain(a) ==
  [id |-> a.id, title |-> a.title, url |-> a.url, description |-> a.description,
   publishedAt |-> a.publishedAt, feedName |-> a.feedName]

\* ArticleDTO.fromDomainList
fromDomainList(as) == [i \in 1..Len(as) |-> fromDomain(as[i])]

\* ArticleDTO.toDomain
toDomain(d) == Article(d.title, d.url, d.publishedAt, d.feedName, d.description, None)

Ids(as) == {as[i].id : i \in 1..Len(as)}

\* ------------------------------------------------------------------- feeds
\* the feeds of the configuration file, in file order
FeedList == <<1, 2>>
Feeds == {FeedList[i] : i \in 1..Len(FeedList)}

\* ----------------------------------------------------------- RssFeedParser
\* an item as rss-parser hands it over; a field that is absent or empty is None
Item(title, link, isoDate, pubDate, published, contentSnippet, content) ==
  [title |-> title, link |-> link, isoDate |-> isoDate, pubDate |-> pubDate,
   published |-> published, contentSnippet |-> contentSnippet, content |-> content]

\* new Date(dateString).getTime(): a date is written as its day number, any
\* other string is no date
ParseDate(dateString) ==
  IF dateString # <<>> /\ \A i \in 1..Len(dateString) : IsDigit(dateString[i])
  THEN ParseDigits(dateString, 0) ELSE NaN

\* a || b on strings
OrElse(a, b) == IF a # None THEN a ELSE b

\* RssFeedParser.parsePublishedDate
parsePublishedDate(item, today) ==
  LET dateString == OrElse(item.isoDate, OrElse(item.pubDate, item.published))
  IN  IF dateString # None /\ ParseDate(dateString) # NaN
      THEN ParseDate(dateString) ELSE today

\* RssFeedParser.itemToArticle: the article in a sequence, the empty sequence
\* for null
itemToArticle(item, feedName, today) ==
  IF item.title = None \/ item.link = None THEN <<>>
  ELSE << Article(item.title, item.link, parsePublishedDate(item, today), feedName,
                  OrElse(item.contentSnippet, item.content), item.content) >>

\* mutant: the loop over the items ends at the first item that gives no article
parse_StopsAtFirstBad(items, feedName, today) ==
  LET bad == {i \in 1..Len(items) : itemToArticle(items[i], feedName, today) = <<>>}
      last == IF bad = {} THEN Len(items)
              ELSE (CHOOSE i \in bad : \A j \in bad : i <= j) - 1
  IN  Flat([i \in 1..last |-> itemToArticle(items[i], feedName, today)])

\* RssFeedParser.parse, once parser.parseURL has returned the items
parse(items, feedName, today) ==
  Flat([i \in 1..Len(items) |-> itemToArticle(items[i], feedName, today)])

\* the items each feed of the configuration file serves
FeedItems(f) ==
  IF f = 1
  THEN << Item(<<"G","o">>, <<"a">>, <<"1">>, None, None, <<"x">>, <<"r","s">>),
          Item(<<"X","y">>, <<"b">>, <<"3">>, None, None, <<"R","s">>, None) >>
  ELSE << Item(<<"J","v">>, <<"c">>, <<"0">>, None, None, None, None),
          Item(<<"G","o">>, <<"a">>, None, <<"1">>, None, None, None) >>

\* what RssFeedParser.parse returns for each feed when the request succeeds;
\* every item carries a date, so the day of the request does not matter
FeedArticles(f) == parse(FeedItems(f), f, 0)

\* keywords of the feed configuration file / of --keywords
ConfigKeywordChoices == { <<>>, << <<"g","o">> >> }
CustomKeywordChoices == { <<>>, << <<"r","s">> >> }

\* -------------------------------------------------- ArticleFilterService
\* the filter FetchArticlesUseCase.filterByKeywords constructs
ArticleFilter(kws) ==
  [keywords |-> kws, matchStrategy |-> "OR", caseSensitive |-> FALSE,
   searchInTitle |-> TRUE, searchInDescription |-> TRUE, searchInContent |-> FALSE]

\* mutant: the content is searched whether or not the filter enables it
buildSearchableText_WithContent(article, options) ==
  Join((IF options.searchInTitle THEN <<article.title>> ELSE <<>>)
       \o (IF options.searchInDescription /\ article.description # None
           THEN <<article.description>> ELSE <<>>)
       \o (IF article.content # None THEN <<article.content>> ELSE <<>>),
       <<" ">>)

buildSearchableText(article, options) ==
  Join((IF options.searchInTitle THEN <<article.title>> ELSE <<>>)
       \o (IF options.searchInDescription /\ article.description # None
           THEN <<article.description>> ELSE <<>>)
       \o (IF options.searchInContent /\ article.content # None
           THEN <<article.content>> ELSE <<>>),
       <<" ">>)

matchKeyword(text, keyword, caseSensitive) ==
  LET searchText == IF caseSensitive THEN text ELSE ToLowerCase(text)
      searchKeyword == IF caseSensitive THEN keyword ELSE ToLowerCase(keyword)
  IN  Includes(searchText, searchKeyword)

\* mutant: every strategy is taken as OR
matchesFilter_AnyOnly(article, flt) ==
  \E i \in 1..Len(flt.keywords) :
     matchKeyword(buildSearchableText(article, flt), flt.keywords[i], flt.caseSensitive)

matchesFilter(article, filter) ==
  LET searchableText == buildSearchableText(article, filter)
      matches == [i \in 1..Len(filter.keywords) |->
                    matchKeyword(searchableText, filter.keywords[i], filter.caseSensitive)]
  IN  IF filter.matchStrategy = "OR"
      THEN \E i \in 1..Len(matches) : matches[i]
      ELSE \A i \in 1..Len(matches) : matches[i]

filterArticles(articles, filter) ==
  SelectSeq(articles, LAMBDA a : matchesFilter(a, filter))

\* mutant: the read articles are not excluded
excludeReadArticles_KeepsRead(articles, readArticleIds) == articles

\* mutant: an article is also dropped when an earlier one has its id
excludeReadArticles_Unique(articles, readArticleIds) ==
  LET keep == {i \in 1..Len(articles) :
                 /\ articles[i].id \notin readArticleIds
                 /\ \A j \in 1..(i - 1) : articles[j].id # articles[i].id}
      Nth(k) == CHOOSE i \in keep : Cardinality({j \in keep : j <= i}) = k
  IN  [k \in 1..Cardinality(keep) |-> articles[Nth(k)]]

excludeReadArticles(articles, readArticleIds) ==
  SelectSeq(articles, LAMBDA a : a.id \notin readArticleIds)

\* mutant: x goes before the articles of its own date
InsertByDate_BeforeEqual(x, s) ==
  LET k == Cardinality({i \in 1..Len(s) : s[i].publishedAt > x.publishedAt})
  IN  SubSeq(s, 1, k) \o <<x>> \o SubSeq(s, k + 1, Len(s))

\* the place Array.prototype.sort (stable) gives x in the sorted sequence s
InsertByDate(x, s) ==
  LET k == Cardinality({i \in 1..Len(s) : s[i].publishedAt >= x.publishedAt})
  IN  SubSeq(s, 1, k) \o <<x>> \o SubSeq(s, k + 1, Len(s))

RECURSIVE sortByPublishedDate(_)
sortByPublishedDate(articles) ==
  IF articles = <<>> THEN <<>>
  ELSE InsertByDate(articles[Len(articles)],
                    sortByPublishedDate(SubSeq(articles, 1, Len(articles) - 1)))

\* Array.prototype.slice(0, maxCount), maxCount >= 0
limitArticles(articles, maxCount) ==
  SubSeq(articles, 1, IF maxCount < Len(articles) THEN maxCount ELSE Len(articles))

\* mutant: the filter is constructed and applied whatever the keywords
filterByKeywords_NoBypass(articles, kws) == filterArticles(articles, ArticleFilter(kws))

\* FetchArticlesUseCase.filterByKeywords
filterByKeywords(articles, kws) ==
  IF Len(kws) = 0 THEN articles ELSE filterArticles(articles, ArticleFilter(kws))

RECURSIVE Dedupe(_)
\* [...new Set(xs)]: the first occurrence of each element, in order
Dedupe(xs) ==
  IF xs = <<>> THEN <<>>
  ELSE LET init == Dedupe(SubSeq(xs, 1, Len(xs) - 1))
           last == xs[Len(xs)]
       IN  IF last \in Range(init) THEN init ELSE Append(init, last)

\* DailyNewsCommand.mergeKeywords
mergeKeywords(defaultKeywords, customKeywords) ==
  SelectSeq(Dedupe(defaultKeywords \o customKeywords), LAMBDA k : Len(k) > 0)

\* ---------------------------------------------------------- ArticleStorage
\* ArticleStorage.loadArticles on a readable file
loadArticles(file) == [i \in 1..Len(file) |-> fromPlainObject(file[i])]

\* ArticleStorage.saveArticles: the file content written
saveArticles(as) == [i \in 1..Len(as) |-> toPlainObject(as[i])]

\* mutant: the new articles are saved without the existing ones
appendArticles_Overwrite(file, newArticles) ==
  IF Len(SelectSeq(newArticles, LAMBDA a : a.id \notin Ids(loadArticles(file)))) = 0
  THEN file ELSE saveArticles(newArticles)

\* ArticleStorage.appendArticles: the file after a successful call
appendArticles(file, newArticles) ==
  LET existingArticles == loadArticles(file)
      existingIds == Ids(existingArticles)
      articlesToAdd == SelectSeq(newArticles, LAMBDA a : a.id \notin existingIds)
  IN  IF Len(articlesToAdd) = 0 THEN file
      ELSE saveArticles(existingArticles \o articlesToAdd)

\* mutant: an article published at the cutoff itself is removed too
cleanupOldArticles_AfterCutoff(file, today, retentionDays) ==
  LET articles == loadArticles(file)
      cutoffDate == today - retentionDays
      remainingArticles == SelectSeq(articles, LAMBDA a : a.publishedAt > cutoffDate)
  IN  IF Len(articles) - Len(remainingArticles) > 0
      THEN saveArticles(remainingArticles) ELSE file

\* ArticleStorage.cleanupOldArticles: the file after a successful call
cleanupOldArticles(file, today, retentionDays) ==
  LET articles == loadArticles(file)
      cutoffDate == today - retentionDays
      remainingArticles == SelectSeq(articles, LAMBDA a : a.publishedAt >= cutoffDate)
  IN  IF Len(articles) - Len(remainingArticles) > 0
      THEN saveArticles(remainingArticles) ELSE file

\* ------------------------------------------------------------------- state
VARIABLES
  storage,          \* the read-articles file: a sequence of plain objects
  now,              \* the current day
  run,              \* number of runs started
  seenDelivered,    \* ids delivered by earlier runs whose append succeeded
  pc,               \* where the current run is
  maxRetries,       \* Config.maxRetries of this process
  options,          \* CommandOptions of this run
  feedEnabled,      \* FeedConfig: enabled flag of each feed
  configKeywords,   \* FeedConfig: default keywords
  keywords,         \* the merged keywords
  fetch,            \* per feed: state, attempt and pending wait of fetchFeed
  results,          \* per feed: what its fetchPromise resolved to
  fetchedArticles, filteredArticles, newArticles,
  articles,         \* FetchArticlesOutput.articles (DTOs)
  fetchLog,         \* per feed: the attempts fetchFeed has made in this fetch stage
  send,             \* sendWithRetry: caller, attempt, pending wait
  sendLog,          \* the latest sendWithRetry call: caller, attempts, how it ended
  posts,            \* the POSTs this run made to the webhook: kind and outcome
  notifyErrorCalls, \* number of DiscordNotifier.notifyError calls of this run
  delivered,        \* the batch whose notifyArticles call returned
  storageLog,       \* the storage calls of this run and their outcome
  storageAtStart,   \* the file when the run started
  error,            \* the error a catch block holds
  thrown,           \* the error DailyNewsCommand.execute threw
  notifyResult,     \* NotifyArticlesOutput
  feedItems,        \* per feed: the items rss-parser reads from its url
  filter,           \* the ArticleFilter a caller of the filter service holds
  calls,            \* per process: the ArticleStorage call it is in
  callLog           \* the file reads and writes of those calls, in order

persist == <<storage, now, run, seenDelivered>>
conf == <<maxRetries, options, feedEnabled, configKeywords, keywords>>
fetchv == <<fetch, results, fetchLog>>
data == <<fetchedArticles, filteredArticles, newArticles, articles>>
obs == <<posts, notifyErrorCalls, delivered, storageLog, storageAtStart>>
outc == <<error, thrown, notifyResult>>
sendv == <<send, sendLog>>
ext == <<feedItems, filter, calls, callLog>>
vars == <<persist, pc, conf, fetchv, data, sendv, obs, outc, ext>>

NoError == "none"
NoResult == [notified |-> FALSE, articleCount |-> 0, savedToRepository |-> FALSE,
             returned |-> FALSE]
IdleFetch == [f \in Feeds |-> [st |-> "idle", attempt |-> 0, wait |-> 0]]
IdleSend == [ctx |-> "none", attempt |-> 0, wait |-> 0]
NoFetchLog == [f \in Feeds |-> <<>>]
NoSendLog == [ctx |-> "none", tries |-> <<>>, result |-> "none"]
NoFilter == [keywords |-> <<>>]
NoCalls == <<>>

\* the retry-after header of a rate-limited response: absent, or the seconds
RetryAfterChoices == {None, ToDecimal(RetryAfterSec)}

\* CommandOptions.maxArticles: undefined, or a number
CapChoices ==
  {[capGiven |-> FALSE, maxArticles |-> 0]}
  \cup {[capGiven |-> TRUE, maxArticles |-> n] : n \in 0..MaxCap}

Init ==
  /\ storage = <<>>
  /\ now = StartDay
  /\ run = 0
  /\ seenDelivered = {}
  /\ pc = "idle"
  /\ maxRetries = 0
  /\ options = [keywords |-> <<>>, skipNotifyIfEmpty |-> FALSE,
                capGiven |-> FALSE, maxArticles |-> 0]
  /\ feedEnabled = [f \in Feeds |-> FALSE]
  /\ configKeywords = <<>>
  /\ keywords = <<>>
  /\ fetch = IdleFetch
  /\ results = [f \in Feeds |-> <<>>]
  /\ fetchedArticles = <<>>
  /\ filteredArticles = <<>>
  /\ newArticles = <<>>
  /\ articles = <<>>
  /\ fetchLog = NoFetchLog
  /\ send = IdleSend
  /\ sendLog = NoSendLog
  /\ posts = <<>>
  /\ notifyErrorCalls = 0
  /\ delivered = <<>>
  /\ storageLog = <<>>
  /\ storageAtStart = <<>>
  /\ error = NoError
  /\ thrown = NoError
  /\ notifyResult = NoResult
  /\ feedItems = [f \in Feeds |-> FeedItems(f)]
  /\ filter = NoFilter
  /\ calls = NoCalls
  /\ callLog = <<>>

\* ------------------------------------------------- DailyNewsCommand.execute
\* a new process: main() parses the arguments, the constructor reads Config.
\* The options are handed unchanged to the use case that reads them: keywords is
\* drawn here, maxArticles in Rank and skipNotifyIfEmpty in the Notify actions.
StartRun ==
  /\ pc \in {"idle", "done", "failed"}
  /\ run < MaxRuns
  /\ run' = run + 1
  /\ \E d \in 0..1 : /\ now + d <= StartDay + MaxDays
                     /\ (run = 0 => d = 0)
                     /\ now' = now + d
  /\ seenDelivered' = seenDelivered \cup
       (IF \E i \in 1..Len(storageLog) : storageLog[i] = <<"append", TRUE>>
        THEN Ids(delivered) ELSE {})
  /\ maxRetries' \in 0..MaxRetriesCfg
  /\ \E kws \in CustomKeywordChoices :
       options' = [keywords |-> kws, skipNotifyIfEmpty |-> FALSE,
                   capGiven |-> FALSE, maxArticles |-> 0]
  /\ feedEnabled' = [f \in Feeds |-> FALSE]
  /\ configKeywords' = <<>>
  /\ keywords' = <<>>
  /\ fetch' = IdleFetch
  /\ results' = [f \in Feeds |-> <<>>]
  /\ fetchedArticles' = <<>>
  /\ filteredArticles' = <<>>
  /\ newArticles' = <<>>
  /\ articles' = <<>>
  /\ fetchLog' = NoFetchLog
  /\ send' = IdleSend
  /\ sendLog' = NoSendLog
  /\ posts' = <<>>
  /\ notifyErrorCalls' = 0
  /\ delivered' = <<>>
  /\ storageLog' = <<>>
  /\ storageAtStart' = storage
  /\ error' = NoError
  /\ thrown' = NoError
  /\ notifyResult' = NoResult
  /\ pc' = "loadConfig"
  /\ UNCHANGED <<ext, storage>>

\* feedConfig.load succeeds; mergeKeywords
LoadConfig ==
  /\ pc = "loadConfig"
  /\ \E en \in [Feeds -> BOOLEAN], ck \in ConfigKeywordChoices :
       /\ feedEnabled' = en
       /\ configKeywords' = ck
       /\ keywords' = mergeKeywords(ck, options.keywords)
  /\ pc' = "fetchStart"
  /\ UNCHANGED <<ext, persist, maxRetries, options, fetchv, data, sendv, obs, outc>>

\* feedConfig.load throws ConfigurationError
LoadConfigFail ==
  /\ pc = "loadConfig"
  /\ error' = "ConfigurationError"
  /\ pc' = "cmdCatch"
  /\ UNCHANGED <<ext, persist, conf, fetchv, data, sendv, obs, thrown, notifyResult>>

\* ------------------------------------------------------------- FeedClient
\* mutant: fetchEnabledFeeds without its filter
EnabledFeeds_All == Feeds

\* feeds.filter((feed) => feed.isEnabled())
EnabledFeeds == {f \in Feeds : feedEnabled[f]}

\* FetchArticlesUseCase.fetchArticlesFromFeeds, FeedClient.fetchEnabledFeeds and
\* the start of every fetchFeed: with maxRetries < 1 the loop body never runs
FetchStart ==
  /\ pc = "fetchStart"
  /\ IF EnabledFeeds = {}
     THEN /\ fetchedArticles' = <<>>
          /\ pc' = "filtering"
          /\ UNCHANGED <<fetch, filteredArticles, newArticles, articles>>
     ELSE /\ fetch' = [f \in Feeds |->
                         IF f \notin EnabledFeeds THEN fetch[f]
                         ELSE IF 1 <= maxRetries
                         THEN [st |-> "running", attempt |-> 1, wait |-> 0]
                         ELSE [st |-> "failed", attempt |-> 1, wait |-> 0]]
          /\ pc' = "fetching"
          /\ UNCHANGED data
  /\ UNCHANGED <<ext, persist, conf, results, fetchLog, sendv, obs, outc>>

\* one attempt of fetchFeed as the log keeps it
FetchTry(ok, waited, wait) == [ok |-> ok, waited |-> waited, wait |-> wait]

\* FeedClient.fetchFeed: parser.parse returns
FetchOk(f) ==
  /\ pc = "fetching"
  /\ fetch[f].st = "running"
  /\ fetch' = [fetch EXCEPT ![f].st = "done"]
  /\ results' = [results EXCEPT ![f] = parse(feedItems[f], f, now)]
  /\ fetchLog' = [fetchLog EXCEPT ![f] = Append(@, FetchTry(TRUE, FALSE, 0))]
  /\ UNCHANGED <<ext, persist, pc, conf, data, sendv, obs, outc>>

\* mutant: fetchFeeds without its try/catch, the FeedFetchError of an exhausted
\* feed rejects Promise.all
FetchFail_Propagates(f) ==
  /\ pc = "fetching"
  /\ fetch[f].st = "running"
  /\ IF fetch[f].attempt < maxRetries
     THEN /\ fetch' = [fetch EXCEPT ![f].st = "waiting",
                                    ![f].wait = RetryDelayMs * fetch[f].attempt]
          /\ fetchLog' = [fetchLog EXCEPT ![f] =
                            Append(@, FetchTry(FALSE, TRUE, RetryDelayMs * fetch[f].attempt))]
          /\ UNCHANGED <<pc, error>>
     ELSE /\ fetch' = [fetch EXCEPT ![f].st = "failed"]
          /\ fetchLog' = [fetchLog EXCEPT ![f] = Append(@, FetchTry(FALSE, FALSE, 0))]
          /\ error' = "FeedFetchError"
          /\ pc' = "cmdCatch"
  /\ UNCHANGED <<ext, persist, conf, results, data, sendv, obs, thrown, notifyResult>>

\* mutant: the loop makes one attempt more than maxRetries
FetchFail_OneMore(f) ==
  /\ pc = "fetching"
  /\ fetch[f].st = "running"
  /\ IF fetch[f].attempt < maxRetries + 1
     THEN /\ fetch' = [fetch EXCEPT ![f].st = "waiting",
                                    ![f].wait = RetryDelayMs * fetch[f].attempt]
          /\ fetchLog' = [fetchLog EXCEPT ![f] =
                            Append(@, FetchTry(FALSE, TRUE, RetryDelayMs * fetch[f].attempt))]
     ELSE /\ fetch' = [fetch EXCEPT ![f].st = "failed"]
          /\ fetchLog' = [fetchLog EXCEPT ![f] = Append(@, FetchTry(FALSE, FALSE, 0))]
  /\ UNCHANGED <<ext, persist, pc, conf, results, data, sendv, obs, outc>>

\* FeedClient.fetchFeed: parser.parse throws; wait, or give up and let
\* fetchFeeds turn the FeedFetchError into an empty result
FetchFail(f) ==
  /\ pc = "fetching"
  /\ fetch[f].st = "running"
  /\ IF fetch[f].attempt < maxRetries
     THEN /\ fetch' = [fetch EXCEPT ![f].st = "waiting",
                                    ![f].wait = RetryDelayMs * fetch[f].attempt]
          /\ fetchLog' = [fetchLog EXCEPT ![f] =
                            Append(@, FetchTry(FALSE, TRUE, RetryDelayMs * fetch[f].attempt))]
     ELSE /\ fetch' = [fetch EXCEPT ![f].st = "failed"]
          /\ fetchLog' = [fetchLog EXCEPT ![f] = Append(@, FetchTry(FALSE, FALSE, 0))]
  /\ UNCHANGED <<ext, persist, pc, conf, results, data, sendv, obs, outc>>

\* FeedClient.fetchFeed: the delay is over, next attempt
FetchRetry(f) ==
  /\ pc = "fetching"
  /\ fetch[f].st = "waiting"
  /\ fetch' = [fetch EXCEPT ![f] = [st |-> "running", attempt |-> fetch[f].attempt + 1,
                                    wait |-> 0]]
  /\ UNCHANGED <<ext, persist, pc, conf, results, fetchLog, data, sendv, obs, outc>>

\* the results of the enabled feeds, in feed order
EnabledResults ==
  LET en == SelectSeq(FeedList, LAMBDA f : f \in EnabledFeeds)
  IN  [i \in 1..Len(en) |-> results[en[i]]]

\* mutant: the first settled fetch lets the pipeline go on (Promise.race)
FetchJoin_Race ==
  /\ pc = "fetching"
  /\ \E f \in EnabledFeeds : fetch[f].st \in {"done", "failed"}
  /\ fetchedArticles' = Flat(EnabledResults)
  /\ fetch' = [f \in Feeds |-> [fetch[f] EXCEPT !.attempt = 0]]
  /\ fetchLog' = NoFetchLog
  /\ pc' = "filtering"
  /\ UNCHANGED <<ext, persist, conf, results, filteredArticles, newArticles, articles,
                 sendv, obs, outc>>

\* FeedClient.fetchFeeds: Promise.all resolves, results.flat(); the locals of
\* the fetchFeed calls, and the log of their attempts, end here
FetchJoin ==
  /\ pc = "fetching"
  /\ \A f \in EnabledFeeds : fetch[f].st \in {"done", "failed"}
  /\ fetchedArticles' = Flat(EnabledResults)
  /\ fetch' = [f \in Feeds |-> [fetch[f] EXCEPT !.attempt = 0]]
  /\ fetchLog' = NoFetchLog
  /\ pc' = "filtering"
  /\ UNCHANGED <<ext, persist, conf, results, filteredArticles, newArticles, articles,
                 sendv, obs, outc>>

\* ----------------------------------------------------- FetchArticlesUseCase
\* step 2 of FetchArticlesUseCase.execute
Filter ==
  /\ pc = "filtering"
  /\ filteredArticles' = filterByKeywords(fetchedArticles, keywords)
  /\ pc' = "excluding"
  /\ UNCHANGED <<ext, persist, conf, fetchv, fetchedArticles, newArticles, articles,
                 sendv, obs, outc>>

\* mutant: the read articles are not looked up
Exclude_NoLoad ==
  /\ pc = "excluding"
  /\ newArticles' = filteredArticles
  /\ pc' = "ranking"
  /\ UNCHANGED <<ext, persist, conf, fetchv, fetchedArticles, filteredArticles, articles,
                 sendv, obs, outc>>

\* FetchArticlesUseCase.excludeReadArticles: findReadArticleIds returns
Exclude ==
  /\ pc = "excluding"
  /\ newArticles' = excludeReadArticles(filteredArticles, Ids(loadArticles(storage)))
  /\ storageLog' = Append(storageLog, <<"load", TRUE>>)
  /\ pc' = "ranking"
  /\ UNCHANGED <<ext, persist, conf, fetchv, fetchedArticles, filteredArticles, articles,
                 sendv, posts, notifyErrorCalls, delivered, storageAtStart, outc>>

\* mutant: a failed load is taken as an empty file
ExcludeFail_AsEmpty ==
  /\ pc = "excluding"
  /\ newArticles' = filteredArticles
  /\ storageLog' = Append(storageLog, <<"load", FALSE>>)
  /\ pc' = "ranking"
  /\ UNCHANGED <<ext, persist, conf, fetchv, fetchedArticles, filteredArticles, articles,
                 sendv, posts, notifyErrorCalls, delivered, storageAtStart, outc>>

\* FetchArticlesUseCase.excludeReadArticles: loadArticles throws StorageError
ExcludeFail ==
  /\ pc = "excluding"
  /\ storageLog' = Append(storageLog, <<"load", FALSE>>)
  /\ error' = "StorageError:load"
  /\ pc' = "cmdCatch"
  /\ UNCHANGED <<ext, persist, conf, fetchv, data, sendv, posts, notifyErrorCalls,
                 delivered, storageAtStart, thrown, notifyResult>>

\* steps 4 to 6 of FetchArticlesUseCase.execute; sort works in place
Rank ==
  /\ pc = "ranking"
  /\ \E cap \in CapChoices :
       options' = [options EXCEPT !.capGiven = cap.capGiven,
                                  !.maxArticles = cap.maxArticles]
  /\ LET sortedArticles == sortByPublishedDate(newArticles)
         limitedArticles == IF options'.capGiven /\ options'.maxArticles # 0
                            THEN limitArticles(sortedArticles, options'.maxArticles)
                            ELSE sortedArticles
     IN  /\ newArticles' = sortedArticles
         /\ articles' = fromDomainList(limitedArticles)
  /\ pc' = "notifying"
  /\ UNCHANGED <<ext, persist, maxRetries, feedEnabled, configKeywords, keywords, fetchv,
                 fetchedArticles, filteredArticles, sendv, obs, outc>>

\* --------------------------------------------------------- DiscordNotifier
\* the message each caller of sendWithRetry sends
Kind(ctx) ==
  CASE ctx = "articles" -> "articles"
    [] ctx = "noArticles" -> "noArticles"
    [] OTHER -> "error"

\* NotifyArticlesUseCase.execute step 2
domainArticles == [i \in 1..Len(articles) |-> toDomain(articles[i])]

\* ------------------------------------------------------- MessageFormatter
\* the most article embeds one message carries
MaxArticleEmbeds == 9
\* the most keywords the summary shows
MaxShownKeywords == 10

\* MessageFormatter.createSummaryEmbed: the article count and the keywords shown
createSummaryEmbed(as, kws) ==
  [kind |-> "summary", count |-> Len(as),
   keywords |-> SubSeq(kws, 1, IF Len(kws) < MaxShownKeywords THEN Len(kws)
                                ELSE MaxShownKeywords)]

\* MessageFormatter.formatArticle: title, url, feed name and publication date
\* of the article; a translation that fails falls back to the same fields
formatArticle(a) ==
  [kind |-> "article", title |-> a.title, url |-> a.url, feedName |-> a.feedName,
   publishedAt |-> a.publishedAt]

\* mutant: every article gets an embed
formatArticles_NoLimit(as, kws) ==
  [count |-> Len(as),
   embeds |-> <<createSummaryEmbed(as, kws)>>
              \o [i \in 1..Len(as) |-> formatArticle(as[i])]]

\* MessageFormatter.formatArticles
formatArticles(as, kws) ==
  LET maxArticles == IF Len(as) < MaxArticleEmbeds THEN Len(as) ELSE MaxArticleEmbeds
  IN  [count |-> Len(as),
       embeds |-> <<createSummaryEmbed(as, kws)>>
                  \o [i \in 1..maxArticles |-> formatArticle(as[i])]]

\* the message DiscordNotifier.notifyArticles builds and posts
message == formatArticles(domainArticles, keywords)

\* mutant: the batch is recorded as read whether or not it was delivered
ResumeArticles_SavesAnyway(ok) ==
  /\ delivered' = IF ok THEN domainArticles ELSE delivered
  /\ pc' = "saving"
  /\ UNCHANGED <<error, thrown, notifyResult>>

\* What follows sendWithRetry in its caller, when it returned (ok) or threw.
\* NotifyArticlesUseCase.execute step 3, inside its try block
ResumeArticles(ok) ==
  IF ok THEN /\ delivered' = domainArticles
             /\ pc' = "saving"
             /\ UNCHANGED <<error, thrown, notifyResult>>
        ELSE /\ error' = "NotificationError:articles"
             /\ pc' = "ucCatch"
             /\ UNCHANGED <<delivered, thrown, notifyResult>>

\* mutant: a failed "no new articles" message is swallowed
ResumeNoArticles_Swallows(ok) ==
  /\ notifyResult' = [notified |-> ok, articleCount |-> 0,
                      savedToRepository |-> FALSE, returned |-> TRUE]
  /\ pc' = "done"
  /\ UNCHANGED <<delivered, error, thrown>>

\* NotifyArticlesUseCase.execute step 1, outside its try block: a
\* NotificationError reaches the catch block of DailyNewsCommand.execute
ResumeNoArticles(ok) ==
  IF ok THEN /\ notifyResult' = [notified |-> TRUE, articleCount |-> 0,
                                 savedToRepository |-> FALSE, returned |-> TRUE]
             /\ pc' = "done"
             /\ UNCHANGED <<delivered, error, thrown>>
        ELSE /\ error' = "NotificationError:noArticles"
             /\ pc' = "cmdCatch"
             /\ UNCHANGED <<delivered, thrown, notifyResult>>

\* mutant: notifyError without its try/catch, the NotificationError of the
\* failed notice leaves the catch block in place of the error it caught
ResumeUcError_Raises(ok) ==
  /\ error' = IF ok THEN error ELSE "NotificationError:error"
  /\ pc' = "cmdCatch"
  /\ UNCHANGED <<delivered, thrown, notifyResult>>

\* DiscordNotifier.notifyError swallows what sendWithRetry throws; the catch
\* block of NotifyArticlesUseCase.execute then rethrows the error it caught
ResumeUcError(ok) ==
  /\ pc' = "cmdCatch"
  /\ UNCHANGED <<delivered, error, thrown, notifyResult>>

\* mutant: the error of the failed notice replaces the error that was caught
ResumeCmdError_ThrowsNoticeError(ok) ==
  /\ thrown' = IF ok THEN error ELSE "NotificationError:error"
  /\ pc' = "failed"
  /\ UNCHANGED <<delivered, error, notifyResult>>

\* DiscordNotifier.notifyError swallows what sendWithRetry throws; the catch
\* block of DailyNewsCommand.execute then rethrows the error it caught
ResumeCmdError(ok) ==
  /\ thrown' = error
  /\ pc' = "failed"
  /\ UNCHANGED <<delivered, error, notifyResult>>

Resume(ctx, ok, tries) ==
  /\ send' = IdleSend
  /\ sendLog' = [ctx |-> ctx, tries |-> tries,
                 result |-> IF ok THEN "returned" ELSE "thrown"]
  /\ CASE ctx = "articles" -> ResumeArticles(ok)
       [] ctx = "noArticles" -> ResumeNoArticles(ok)
       [] ctx = "ucError" -> ResumeUcError(ok)
       [] OTHER -> ResumeCmdError(ok)

\* mutant: the loop makes one attempt more than maxRetries
SendLoop_OneMore(ctx, attempt, tries) ==
  IF attempt <= maxRetries + 1
  THEN /\ send' = [ctx |-> ctx, attempt |-> attempt, wait |-> 0]
       /\ sendLog' = [ctx |-> ctx, tries |-> tries, result |-> "pending"]
       /\ pc' = "sending"
       /\ UNCHANGED <<delivered, error, thrown, notifyResult>>
  ELSE Resume(ctx, FALSE, tries)

\* the loop head of DiscordNotifier.sendWithRetry, and the throw after the loop
SendLoop(ctx, attempt, tries) ==
  IF attempt <= maxRetries
  THEN /\ send' = [ctx |-> ctx, attempt |-> attempt, wait |-> 0]
       /\ sendLog' = [ctx |-> ctx, tries |-> tries, result |-> "pending"]
       /\ pc' = "sending"
       /\ UNCHANGED <<delivered, error, thrown, notifyResult>>
  ELSE Resume(ctx, FALSE, tries)

\* one attempt of sendWithRetry as the log keeps it
SendTry(status, retryAfter, waited, wait) ==
  [attempt |-> send.attempt, status |-> status, retryAfter |-> retryAfter,
   waited |-> waited, wait |-> wait]

\* axiosInstance.post returns
SendOk ==
  /\ pc = "sending"
  /\ posts' = Append(posts, [kind |-> Kind(send.ctx), ok |-> TRUE])
  /\ Resume(send.ctx, TRUE, Append(sendLog.tries, SendTry("ok", None, FALSE, 0)))
  /\ UNCHANGED <<ext, persist, conf, fetchv, data, notifyErrorCalls, storageLog,
                 storageAtStart>>

\* mutant: the retry-after header is not read
SendRateLimited_NoHeader ==
  /\ pc = "sending"
  /\ posts' = Append(posts, [kind |-> Kind(send.ctx), ok |-> FALSE])
  /\ \E retryAfter \in RetryAfterChoices :
       LET waitTime == RetryDelayMs * send.attempt
       IN  /\ send' = [send EXCEPT !.wait = delay(waitTime)]
           /\ sendLog' = [sendLog EXCEPT !.tries =
                            Append(@, SendTry("429", retryAfter, TRUE, delay(waitTime)))]
  /\ pc' = "sendWait"
  /\ UNCHANGED <<ext, persist, conf, fetchv, data, notifyErrorCalls, delivered, storageLog,
                 storageAtStart, outc>>

\* mutant: a rate-limited attempt is neither counted nor logged, the loop
\* repeats it after the wait
SendRateLimited_Uncounted ==
  /\ pc = "sending"
  /\ send' = [send EXCEPT !.attempt = @ - 1, !.wait = delay(RetryDelayMs * send.attempt)]
  /\ pc' = "sendWait"
  /\ UNCHANGED <<ext, persist, conf, fetchv, data, posts, sendLog, notifyErrorCalls,
                 delivered, storageLog, storageAtStart, outc>>

\* axiosInstance.post fails with status 429, with or without a retry-after
\* header: the wait is parseInt(retryAfter) * 1000 ms, or the linear backoff
SendRateLimited ==
  /\ pc = "sending"
  /\ posts' = Append(posts, [kind |-> Kind(send.ctx), ok |-> FALSE])
  /\ \E retryAfter \in RetryAfterChoices :
       LET waitTime == IF retryAfter # None
                       THEN (IF parseInt(retryAfter) = NaN THEN NaN
                             ELSE parseInt(retryAfter) * 1000)
                       ELSE RetryDelayMs * send.attempt
       IN  /\ send' = [send EXCEPT !.wait = delay(waitTime)]
           /\ sendLog' = [sendLog EXCEPT !.tries =
                            Append(@, SendTry("429", retryAfter, TRUE, delay(waitTime)))]
  /\ pc' = "sendWait"
  /\ UNCHANGED <<ext, persist, conf, fetchv, data, notifyErrorCalls, delivered, storageLog,
                 storageAtStart, outc>>

\* axiosInstance.post fails otherwise
SendFail ==
  /\ pc = "sending"
  /\ posts' = Append(posts, [kind |-> Kind(send.ctx), ok |-> FALSE])
  /\ IF send.attempt < maxRetries
     THEN /\ send' = [send EXCEPT !.wait = delay(RetryDelayMs * send.attempt)]
          /\ sendLog' = [sendLog EXCEPT !.tries =
                           Append(@, SendTry("error", None, TRUE,
                                             delay(RetryDelayMs * send.attempt)))]
          /\ pc' = "sendWait"
          /\ UNCHANGED <<delivered, outc>>
     ELSE Resume(send.ctx, FALSE,
                 Append(sendLog.tries, SendTry("error", None, FALSE, 0)))
  /\ UNCHANGED <<ext, persist, conf, fetchv, data, notifyErrorCalls, storageLog,
                 storageAtStart>>

\* the delay is over: next iteration of the loop
SendRetry ==
  /\ pc = "sendWait"
  /\ SendLoop(send.ctx, send.attempt + 1, sendLog.tries)
  /\ UNCHANGED <<ext, persist, conf, fetchv, data, posts, notifyErrorCalls, storageLog,
                 storageAtStart>>

\* ---------------------------------------------------- NotifyArticlesUseCase
\* mutant: the flag is ignored and the "no new articles" message is sent
NotifySkip_Ignored ==
  /\ pc = "notifying"
  /\ Len(articles) = 0
  /\ options' = [options EXCEPT !.skipNotifyIfEmpty = TRUE]
  /\ SendLoop("noArticles", 1, <<>>)
  /\ UNCHANGED <<ext, persist, maxRetries, feedEnabled, configKeywords, keywords, fetchv,
                 data, obs>>

\* mutant: the run without new articles goes on to the cleanup step
NotifySkip_Prunes ==
  /\ pc = "notifying"
  /\ Len(articles) = 0
  /\ options' = [options EXCEPT !.skipNotifyIfEmpty = TRUE]
  /\ pc' = "cleanup"
  /\ UNCHANGED <<ext, persist, maxRetries, feedEnabled, configKeywords, keywords, fetchv,
                 data, sendv, obs, outc>>

\* no articles and skipNotifyIfEmpty
NotifySkip ==
  /\ pc = "notifying"
  /\ Len(articles) = 0
  /\ options' = [options EXCEPT !.skipNotifyIfEmpty = TRUE]
  /\ notifyResult' = [notified |-> FALSE, articleCount |-> 0,
                      savedToRepository |-> FALSE, returned |-> TRUE]
  /\ pc' = "done"
  /\ UNCHANGED <<ext, persist, maxRetries, feedEnabled, configKeywords, keywords, fetchv,
                 data, sendv, obs, error, thrown>>

\* no articles: discordNotifier.notifyArticles([], keywords)
NotifyEmpty ==
  /\ pc = "notifying"
  /\ Len(articles) = 0
  /\ options' = [options EXCEPT !.skipNotifyIfEmpty = FALSE]
  /\ SendLoop("noArticles", 1, <<>>)
  /\ UNCHANGED <<ext, persist, maxRetries, feedEnabled, configKeywords, keywords, fetchv,
                 data, obs>>

\* step 3: discordNotifier.notifyArticles(domainArticles, keywords)
NotifyBatch ==
  /\ pc = "notifying"
  /\ Len(articles) # 0
  /\ \E skip \in BOOLEAN : options' = [options EXCEPT !.skipNotifyIfEmpty = skip]
  /\ SendLoop("articles", 1, <<>>)
  /\ UNCHANGED <<ext, persist, maxRetries, feedEnabled, configKeywords, keywords, fetchv,
                 data, obs>>

\* step 4: articleRepository.saveReadArticles returns
Save ==
  /\ pc = "saving"
  /\ storage' = appendArticles(storage, domainArticles)
  /\ storageLog' = Append(storageLog, <<"append", TRUE>>)
  /\ pc' = "cleanup"
  /\ UNCHANGED <<ext, now, run, seenDelivered, conf, fetchv, data, sendv, posts,
                 notifyErrorCalls, delivered, storageAtStart, outc>>

\* step 4: articleRepository.saveReadArticles throws StorageError
SaveFail ==
  /\ pc = "saving"
  /\ storageLog' = Append(storageLog, <<"append", FALSE>>)
  /\ error' = "StorageError:append"
  /\ pc' = "ucCatch"
  /\ UNCHANGED <<ext, persist, conf, fetchv, data, sendv, posts, notifyErrorCalls,
                 delivered, storageAtStart, thrown, notifyResult>>

\* step 5: NotifyArticlesUseCase.cleanupOldArticles, the repository call returns
Cleanup ==
  /\ pc = "cleanup"
  /\ storage' = cleanupOldArticles(storage, now, RetentionDays)
  /\ storageLog' = Append(storageLog, <<"cleanup", TRUE>>)
  /\ notifyResult' = [notified |-> TRUE, articleCount |-> Len(articles),
                      savedToRepository |-> TRUE, returned |-> TRUE]
  /\ pc' = "done"
  /\ UNCHANGED <<ext, now, run, seenDelivered, conf, fetchv, data, sendv, posts,
                 notifyErrorCalls, delivered, storageAtStart, error, thrown>>

\* mutant: cleanupOldArticles without its try/catch
CleanupFail_Throws ==
  /\ pc = "cleanup"
  /\ storageLog' = Append(storageLog, <<"cleanup", FALSE>>)
  /\ error' = "StorageError:cleanup"
  /\ pc' = "ucCatch"
  /\ UNCHANGED <<ext, persist, conf, fetchv, data, sendv, posts, notifyErrorCalls,
                 delivered, storageAtStart, thrown, notifyResult>>

\* step 5: the repository call throws, which is only logged
CleanupFail ==
  /\ pc = "cleanup"
  /\ storageLog' = Append(storageLog, <<"cleanup", FALSE>>)
  /\ notifyResult' = [notified |-> TRUE, articleCount |-> Len(articles),
                      savedToRepository |-> TRUE, returned |-> TRUE]
  /\ pc' = "done"
  /\ UNCHANGED <<ext, persist, conf, fetchv, data, sendv, posts, notifyErrorCalls,
                 delivered, storageAtStart, error, thrown>>

\* the catch block of NotifyArticlesUseCase.execute: notifyError, then rethrow
\* mutant: the catch block cleans the file up before it reports the error
UcCatch_Prunes ==
  /\ pc = "ucCatch"
  /\ notifyErrorCalls' = notifyErrorCalls + 1
  /\ storage' = cleanupOldArticles(storage, now, RetentionDays)
  /\ SendLoop("ucError", 1, <<>>)
  /\ UNCHANGED <<ext, now, run, seenDelivered, conf, fetchv, data, posts, storageLog,
                 storageAtStart>>

UcCatch ==
  /\ pc = "ucCatch"
  /\ notifyErrorCalls' = notifyErrorCalls + 1
  /\ SendLoop("ucError", 1, <<>>)
  /\ UNCHANGED <<ext, persist, conf, fetchv, data, posts, storageLog, storageAtStart>>

\* the catch block of DailyNewsCommand.execute: notifyError, then rethrow
CmdCatch ==
  /\ pc = "cmdCatch"
  /\ notifyErrorCalls' = notifyErrorCalls + 1
  /\ SendLoop("cmdError", 1, <<>>)
  /\ UNCHANGED <<ext, persist, conf, fetchv, data, posts, storageLog, storageAtStart>>

\* main: process.exit(1) in its catch block when DailyNewsCommand.execute threw,
\* process.exit(0) when it returned; read once the run has ended
exitCode == IF pc = "failed" THEN 1 ELSE 0

Next ==
  \/ StartRun
  \/ LoadConfig
  \/ LoadConfigFail
  \/ FetchStart
  \/ \E f \in Feeds : FetchOk(f)
  \/ \E f \in Feeds : FetchFail(f)
  \/ \E f \in Feeds : FetchRetry(f)
  \/ FetchJoin
  \/ Filter
  \/ Exclude
  \/ ExcludeFail
  \/ Rank
  \/ NotifySkip
  \/ NotifyEmpty
  \/ NotifyBatch
  \/ SendOk
  \/ SendRateLimited
  \/ SendFail
  \/ SendRetry
  \/ Save
  \/ SaveFail
  \/ Cleanup
  \/ CleanupFail
  \/ UcCatch
  \/ CmdCatch

Spec == Init /\ [][Next]_vars

\* ------------------------------------------------ one run, more retries
\* A first run after feedConfig.load returned: every feed enabled, no keywords,
\* an empty read-articles file, and MAX_RETRIES up to MaxAttempts, so that the
\* retry loops of FeedClient and DiscordNotifier make a third attempt.
RetryInit ==
  /\ storage = <<>>
  /\ now = StartDay
  /\ run = 1
  /\ seenDelivered = {}
  /\ pc = "fetchStart"
  /\ maxRetries \in 0..MaxAttempts
  /\ options = [keywords |-> <<>>, skipNotifyIfEmpty |-> FALSE,
                capGiven |-> FALSE, maxArticles |-> 0]
  /\ feedEnabled = [f \in Feeds |-> TRUE]
  /\ configKeywords = <<>>
  /\ keywords = mergeKeywords(<<>>, <<>>)
  /\ fetch = IdleFetch
  /\ results = [f \in Feeds |-> <<>>]
  /\ fetchLog = NoFetchLog
  /\ fetchedArticles = <<>>
  /\ filteredArticles = <<>>
  /\ newArticles = <<>>
  /\ articles = <<>>
  /\ send = IdleSend
  /\ sendLog = NoSendLog
  /\ posts = <<>>
  /\ notifyErrorCalls = 0
  /\ delivered = <<>>
  /\ storageLog = <<>>
  /\ storageAtStart = <<>>
  /\ error = NoError
  /\ thrown = NoError
  /\ notifyResult = NoResult
  /\ feedItems = [f \in Feeds |-> FeedItems(f)]
  /\ filter = NoFilter
  /\ calls = NoCalls
  /\ callLog = <<>>

\* the steps of the run
RunNext ==
  \/ FetchStart
  \/ \E f \in Feeds : FetchOk(f)
  \/ \E f \in Feeds : FetchFail(f)
  \/ \E f \in Feeds : FetchRetry(f)
  \/ FetchJoin
  \/ Filter
  \/ Exclude
  \/ ExcludeFail
  \/ Rank
  \/ NotifySkip
  \/ NotifyEmpty
  \/ NotifyBatch
  \/ SendOk
  \/ SendRateLimited
  \/ SendFail
  \/ SendRetry
  \/ Save
  \/ SaveFail
  \/ Cleanup
  \/ CleanupFail
  \/ UcCatch
  \/ CmdCatch

RetrySpec == RetryInit /\ [][RunNext]_vars

\* The same run under the scheduling the runtime gives it: every awaited
\* request, file operation and timer settles, and the continuation that waits
\* for it is run, so a step that is possible is eventually taken.
LiveSpec == RetryInit /\ [][RunNext]_vars /\ WF_vars(RunNext)

\* ------------------------------------------- one run, articles drawn
\* A run whose two feeds have returned lists drawn from a small set of
\* articles, over a read-articles file drawn likewise, followed from the join
\* of the fetches on.  The articles differ in url and title so that two of the
\* four url and title pairs concatenate to the same string, and one pair comes
\* with every other field varied.
ItemUrls == { <<"a">>, <<"a", "b">> }
ItemTitles == { <<"c">>, <<"b", "c">> }

\* what the first feed can return: each pair as a plain article, and one pair
\* also older, with a description, and with a content
Feed1Items ==
  {Article(t, u, 1, 1, None, None) : u \in ItemUrls, t \in ItemTitles}
  \cup {Article(<<"b", "c">>, <<"a">>, 0, 1, None, None),
        Article(<<"b", "c">>, <<"a">>, 1, 1, <<"d">>, None),
        Article(<<"b", "c">>, <<"a">>, 1, 1, <<"d">>, <<"e">>)}

\* what the second feed can return: the same url and title under its name
Feed2Items == {Article(<<"b", "c">>, <<"a">>, 1, 2, None, None)}

ListsOf(S, n) == UNION {[1..k -> S] : k \in 0..n}

\* the files an earlier run can have left: at most one record
StoredFiles ==
  {saveArticles(as) :
     as \in ListsOf({Article(t, u, 1, 1, None, None) : u \in ItemUrls, t \in ItemTitles}, 1)}

ItemsInit ==
  /\ storage \in StoredFiles
  /\ now = StartDay
  /\ run = 1
  /\ seenDelivered = {}
  /\ pc = "filtering"
  /\ maxRetries = 1
  /\ options = [keywords |-> <<>>, skipNotifyIfEmpty |-> FALSE,
                capGiven |-> FALSE, maxArticles |-> 0]
  /\ feedEnabled = [f \in Feeds |-> TRUE]
  /\ configKeywords = <<>>
  /\ keywords = mergeKeywords(<<>>, <<>>)
  /\ fetch = [f \in Feeds |-> [st |-> "done", attempt |-> 0, wait |-> 0]]
  /\ \E r1 \in ListsOf(Feed1Items, MaxItems), r2 \in ListsOf(Feed2Items, 1) :
       /\ results = [f \in Feeds |-> IF f = 1 THEN r1 ELSE r2]
       /\ fetchedArticles = Flat(<<r1, r2>>)
  /\ fetchLog = NoFetchLog
  /\ filteredArticles = <<>>
  /\ newArticles = <<>>
  /\ articles = <<>>
  /\ send = IdleSend
  /\ sendLog = NoSendLog
  /\ posts = <<>>
  /\ notifyErrorCalls = 0
  /\ delivered = <<>>
  /\ storageLog = <<>>
  /\ storageAtStart = storage
  /\ error = NoError
  /\ thrown = NoError
  /\ notifyResult = NoResult
  /\ feedItems = [f \in Feeds |-> FeedItems(f)]
  /\ filter = NoFilter
  /\ calls = NoCalls
  /\ callLog = <<>>

\* the steps of the run after the join
ItemsNext ==
  \/ Filter
  \/ Exclude
  \/ ExcludeFail
  \/ Rank
  \/ NotifySkip
  \/ NotifyEmpty
  \/ NotifyBatch
  \/ SendOk
  \/ SendRateLimited
  \/ SendFail
  \/ SendRetry
  \/ Save
  \/ SaveFail
  \/ Cleanup
  \/ CleanupFail
  \/ UcCatch
  \/ CmdCatch

ItemsSpec == ItemsInit /\ [][ItemsNext]_vars

\* ------------------------------------- the filter service, any filter
\* A caller that constructs an ArticleFilter with keywords and options of its
\* own and hands it to filterArticles, beside the filter step of the use case
\* run on the same articles and keywords.
FilterKeywords == { <<"g", "o">>, <<"R", "s">>, <<"o", " ", "r">> }

\* longest keyword list and longest article list of this caller
MaxKeywords == 2
MaxFiltered == 2

\* the articles filtered: each field in two forms
FilterItems ==
  {Article(t, <<"a">>, 1, 1, d, c) :
     t \in {<<"G", "o">>, <<"r", "s">>}, d \in {None, <<"R", "s">>},
     c \in {None, <<"g", "o">>}}

\* FilterOptions
FilterOptions ==
  [matchStrategy : {"OR", "AND"}, caseSensitive : BOOLEAN, searchInTitle : BOOLEAN,
   searchInDescription : BOOLEAN, searchInContent : BOOLEAN]

FilterInit ==
  /\ storage = <<>>
  /\ now = StartDay
  /\ run = 1
  /\ seenDelivered = {}
  /\ pc \in {"newFilter", "filtering"}
  /\ maxRetries = 1
  /\ keywords \in ListsOf(FilterKeywords, MaxKeywords)
  /\ options = [keywords |-> keywords, skipNotifyIfEmpty |-> FALSE,
                capGiven |-> FALSE, maxArticles |-> 0]
  /\ feedEnabled = [f \in Feeds |-> TRUE]
  /\ configKeywords = <<>>
  /\ fetch = [f \in Feeds |-> [st |-> "done", attempt |-> 0, wait |-> 0]]
  /\ results = [f \in Feeds |-> <<>>]
  /\ fetchedArticles \in ListsOf(FilterItems, MaxFiltered)
  /\ fetchLog = NoFetchLog
  /\ filteredArticles = <<>>
  /\ newArticles = <<>>
  /\ articles = <<>>
  /\ send = IdleSend
  /\ sendLog = NoSendLog
  /\ posts = <<>>
  /\ notifyErrorCalls = 0
  /\ delivered = <<>>
  /\ storageLog = <<>>
  /\ storageAtStart = <<>>
  /\ error = NoError
  /\ thrown = NoError
  /\ notifyResult = NoResult
  /\ feedItems = [f \in Feeds |-> <<>>]
  /\ filter = NoFilter
  /\ calls = NoCalls
  /\ callLog = <<>>

\* new ArticleFilter(keywords, options)
NewArticleFilter ==
  /\ pc = "newFilter"
  /\ IF Len(keywords) = 0
     THEN /\ error' = "Error:keywords"
          /\ pc' = "failed"
          /\ UNCHANGED filter
     ELSE /\ \E o \in FilterOptions :
               filter' = [keywords |-> keywords, matchStrategy |-> o.matchStrategy,
                          caseSensitive |-> o.caseSensitive,
                          searchInTitle |-> o.searchInTitle,
                          searchInDescription |-> o.searchInDescription,
                          searchInContent |-> o.searchInContent]
          /\ pc' = "filterArticles"
          /\ UNCHANGED error
  /\ UNCHANGED <<persist, conf, fetchv, data, sendv, obs, thrown, notifyResult,
                 feedItems, calls, callLog>>

\* ArticleFilterService.filterArticles(articles, filter)
FilterArticles ==
  /\ pc = "filterArticles"
  /\ filteredArticles' = filterArticles(fetchedArticles, filter)
  /\ pc' = "done"
  /\ UNCHANGED <<ext, persist, conf, fetchv, fetchedArticles, newArticles, articles,
                 sendv, obs, outc>>

FilterNext ==
  \/ NewArticleFilter
  \/ FilterArticles
  \/ Filter

FilterSpec == FilterInit /\ [][FilterNext]_vars

\* ------------------------------------------- one delivery, long batches
\* The notification use case run on batches longer than one message can show.
\* longest batch handed to the notification use case
MaxBatch == 10

\* the url of the i-th article of a batch, two digits
BatchUrl(i) == <<Digits[(i \div 10) + 1], Digits[(i % 10) + 1]>>

\* a batch of n articles as FetchArticlesUseCase hands it over: latest first
BatchOf(n) ==
  [i \in 1..n |-> Article(<<"t">>, BatchUrl(i), IF 2 * i <= n THEN StartDay ELSE StartDay - 1,
                          1, None, None)]

BatchInit ==
  /\ storage = <<>>
  /\ now = StartDay
  /\ run = 1
  /\ seenDelivered = {}
  /\ pc = "notifying"
  /\ maxRetries \in 1..MaxRetriesCfg
  /\ options = [keywords |-> <<>>, skipNotifyIfEmpty |-> FALSE,
                capGiven |-> FALSE, maxArticles |-> 0]
  /\ feedEnabled = [f \in Feeds |-> f = 1]
  /\ configKeywords = <<>>
  /\ keywords = mergeKeywords(<<>>, <<>>)
  /\ fetch = [f \in Feeds |-> [st |-> IF f = 1 THEN "done" ELSE "idle",
                                attempt |-> 0, wait |-> 0]]
  /\ \E n \in 1..MaxBatch :
       /\ results = [f \in Feeds |-> IF f = 1 THEN BatchOf(n) ELSE <<>>]
       /\ fetchedArticles = BatchOf(n)
       /\ filteredArticles = BatchOf(n)
       /\ newArticles = BatchOf(n)
       /\ articles = fromDomainList(BatchOf(n))
  /\ fetchLog = NoFetchLog
  /\ send = IdleSend
  /\ sendLog = NoSendLog
  /\ posts = <<>>
  /\ notifyErrorCalls = 0
  /\ delivered = <<>>
  /\ storageLog = << <<"load", TRUE>> >>
  /\ storageAtStart = <<>>
  /\ error = NoError
  /\ thrown = NoError
  /\ notifyResult = NoResult
  /\ feedItems = [f \in Feeds |-> <<>>]
  /\ filter = NoFilter
  /\ calls = NoCalls
  /\ callLog = <<>>

\* the steps of the run from the notification use case on
BatchNext ==
  \/ NotifyBatch
  \/ SendOk
  \/ SendRateLimited
  \/ SendFail
  \/ SendRetry
  \/ Save
  \/ SaveFail
  \/ Cleanup
  \/ CleanupFail
  \/ UcCatch
  \/ CmdCatch

BatchSpec == BatchInit /\ [][BatchNext]_vars

\* ------------------------------------------- one run, feed items drawn
\* A run over one enabled feed whose items are drawn from well-formed and
\* malformed ones.  rss-parser derives isoDate from pubDate when that parses,
\* so an item has an isoDate only together with a pubDate.
\* longest list of items the feed serves
MaxRecords == 2

ServedItems ==
  { Item(<<"G","o">>, <<"a">>, <<"1">>, <<"1">>, None, <<"x">>, <<"r","s">>),
    Item(None, <<"b">>, <<"1">>, <<"1">>, None, None, None),
    Item(<<"X","y">>, None, <<"1">>, <<"1">>, None, None, None),
    Item(<<"J","v">>, <<"c">>, None, None, None, None, <<"r","s">>),
    Item(<<"J","v">>, <<"d">>, None, <<"x">>, None, None, None),
    Item(<<"J","v">>, <<"e">>, None, None, <<"2">>, None, None),
    Item(None, None, None, None, None, None, None) }

ParseInit ==
  /\ storage = <<>>
  /\ now = StartDay
  /\ run = 1
  /\ seenDelivered = {}
  /\ pc = "fetchStart"
  /\ maxRetries = MaxRetriesCfg
  /\ options = [keywords |-> <<>>, skipNotifyIfEmpty |-> FALSE,
                capGiven |-> FALSE, maxArticles |-> 0]
  /\ feedEnabled = [f \in Feeds |-> f = 1]
  /\ configKeywords = <<>>
  /\ keywords = mergeKeywords(<<>>, <<>>)
  /\ fetch = IdleFetch
  /\ results = [f \in Feeds |-> <<>>]
  /\ fetchLog = NoFetchLog
  /\ fetchedArticles = <<>>
  /\ filteredArticles = <<>>
  /\ newArticles = <<>>
  /\ articles = <<>>
  /\ send = IdleSend
  /\ sendLog = NoSendLog
  /\ posts = <<>>
  /\ notifyErrorCalls = 0
  /\ delivered = <<>>
  /\ storageLog = <<>>
  /\ storageAtStart = <<>>
  /\ error = NoError
  /\ thrown = NoError
  /\ notifyResult = NoResult
  /\ \E items \in ListsOf(ServedItems, MaxRecords) :
       feedItems = [f \in Feeds |-> IF f = 1 THEN items ELSE <<>>]
  /\ filter = NoFilter
  /\ calls = NoCalls
  /\ callLog = <<>>

ParseSpec == ParseInit /\ [][RunNext]_vars

\* ------------------------------------------- two runs at the same time
\* Two processes, each in one call of ArticleStorage on the same file.  A call
\* reads the file (loadArticles), computes, and writes it (saveArticles) when
\* it has something to write; nothing keeps the other process from reading or
\* writing in between.  A read and a write are each taken as one step.
Procs == {1, 2}

\* the calls a process can be in: appendArticles with a batch, cleanupOldArticles
StorageCalls ==
  {[op |-> "append", batch |-> b] :
     b \in ListsOf({Article(<<"c">>, u, StartDay - RetentionDays, 1, None, None) :
                      u \in ItemUrls}, MaxItems) \ {<<>>}}
  \cup {[op |-> "cleanup", batch |-> <<>>]}

\* the file the two calls find: empty, or one record older than the retention
SharedFiles ==
  {<<>>, saveArticles(<<Article(<<"b", "c">>, <<"a", "b">>, 0, 1, None, None)>>)}

RaceInit ==
  /\ storage \in SharedFiles
  /\ now = StartDay
  /\ run = 2
  /\ seenDelivered = {}
  /\ pc = "idle"
  /\ maxRetries = 1
  /\ options = [keywords |-> <<>>, skipNotifyIfEmpty |-> FALSE,
                capGiven |-> FALSE, maxArticles |-> 0]
  /\ feedEnabled = [f \in Feeds |-> FALSE]
  /\ configKeywords = <<>>
  /\ keywords = <<>>
  /\ fetch = IdleFetch
  /\ results = [f \in Feeds |-> <<>>]
  /\ fetchLog = NoFetchLog
  /\ fetchedArticles = <<>>
  /\ filteredArticles = <<>>
  /\ newArticles = <<>>
  /\ articles = <<>>
  /\ send = IdleSend
  /\ sendLog = NoSendLog
  /\ posts = <<>>
  /\ notifyErrorCalls = 0
  /\ delivered = <<>>
  /\ storageLog = <<>>
  /\ storageAtStart = storage
  /\ error = NoError
  /\ thrown = NoError
  /\ notifyResult = NoResult
  /\ feedItems = [f \in Feeds |-> <<>>]
  /\ filter = NoFilter
  /\ \E cs \in [Procs -> StorageCalls] :
       calls = [p \in Procs |-> [op |-> cs[p].op, batch |-> cs[p].batch, st |-> "called",
                                 read |-> <<>>, wrote |-> {}]]
  /\ callLog = <<>>

\* appendArticles / cleanupOldArticles: loadArticles returns
CallLoad(p) ==
  /\ calls # NoCalls
  /\ calls[p].st = "called"
  /\ calls' = [calls EXCEPT ![p].st = "loaded", ![p].read = storage]
  /\ callLog' = Append(callLog, <<p, "read">>)
  /\ UNCHANGED <<persist, pc, conf, fetchv, data, sendv, obs, outc, feedItems, filter>>

\* appendArticles / cleanupOldArticles: the rest of the call, saveArticles
\* when there is something to add or to remove
CallStore(p) ==
  /\ calls # NoCalls
  /\ calls[p].st = "loaded"
  /\ LET result == IF calls[p].op = "append"
                   THEN appendArticles(calls[p].read, calls[p].batch)
                   ELSE cleanupOldArticles(calls[p].read, now, RetentionDays)
     IN  IF result = calls[p].read
         THEN /\ calls' = [calls EXCEPT ![p].st = "returned"]
              /\ UNCHANGED <<storage, callLog>>
         ELSE /\ storage' = result
              /\ calls' = [calls EXCEPT ![p].st = "returned",
                                        ![p].wrote = Ids(result) \ Ids(calls[p].read)]
              /\ callLog' = Append(callLog, <<p, "write">>)
  /\ UNCHANGED <<now, run, seenDelivered, pc, conf, fetchv, data, sendv, obs, outc,
                 feedItems, filter>>

RaceNext ==
  \/ \E p \in Procs : CallLoad(p)
  \/ \E p \in Procs : CallStore(p)

RaceSpec == RaceInit /\ [][RaceNext]_vars

\* ================================================================== claims
RunEnded == pc \in {"done", "failed"}
Logged(op, ok) == \E i \in 1..Len(storageLog) : storageLog[i] = <<op, ok>>
Posted(kind, ok) == \E i \in 1..Len(posts) : posts[i] = [kind |-> kind, ok |-> ok]
PostCount(kind, ok) ==
  Cardinality({i \in 1..Len(posts) : posts[i] = [kind |-> kind, ok |-> ok]})
RecordIds(file) == {file[i].id : i \in 1..Len(file)}
Occurs(x, seq) == \E i \in 1..Len(seq) : seq[i] = x
\* the places <<feed, index>> of the articles the feeds return
FeedPositions == UNION {{<<f, i>> : i \in 1..Len(FeedArticles(f))} : f \in Feeds}

\* ---- C1
\* C1 (as claimed): no run delivers an article whose id was delivered by an
\* earlier run that also appended it to the read-articles file.
C1_NeverRedelivered ==
  \A i \in 1..Len(delivered) : delivered[i].id \notin seenDelivered

\* ---- C2
\* the fetched articles a run without cap has to deliver: those of the enabled
\* feeds whose fetch succeeded that match the keywords and are unread at run start
C2_Eligible ==
  {<<f, i>> \in FeedPositions :
     /\ feedEnabled[f] /\ fetch[f].st = "done"
     /\ keywords = <<>> \/ matchesFilter(FeedArticles(f)[i], ArticleFilter(keywords))
     /\ FeedArticles(f)[i].id \notin RecordIds(storageAtStart)}

C2_DeliveryDone == RunEnded /\ ~options.capGiven
                   /\ (Posted("articles", TRUE) \/ Posted("noArticles", TRUE))

C2_DeliveredExactly ==
  /\ Len(delivered) = Cardinality(C2_Eligible)
  /\ \A e \in C2_Eligible :
       Occurs(toDomain(fromDomain(FeedArticles(e[1])[e[2]])), delivered)

\* C2 (as claimed): after a run without cap whose delivery succeeded, the batch is
\* exactly the eligible articles and the stored ids are the prior ids together
\* with the delivered ids.
C2_AsClaimed ==
  C2_DeliveryDone =>
    /\ C2_DeliveredExactly
    /\ RecordIds(storage) = RecordIds(storageAtStart) \cup Ids(delivered)

\* C2 (amended): the batch is exactly the eligible articles; if the append
\* succeeded the stored ids are the prior ids together with the delivered ids,
\* less, when cleanup succeeded too, the ids of the records published before
\* now - retention; if nothing was appended the file is as at run start.
C2_DeliveredAndStored ==
  C2_DeliveryDone =>
    /\ C2_DeliveredExactly
    /\ IF ~Logged("append", TRUE) THEN storage = storageAtStart
       ELSE LET all == storageAtStart \o saveArticles(delivered)
                kept == IF Logged("cleanup", TRUE)
                        THEN {all[i].id : i \in {j \in 1..Len(all) :
                                 all[j].publishedAt >= now - RetentionDays}}
                        ELSE RecordIds(all)
            IN  RecordIds(storage) = kept

\* the instance: feed 1 returned [A, B], feed 2 failed, A was read, the keywords
\* match only B; [B] is delivered and the file holds A and B
C2_Witness ==
  /\ C2_DeliveryDone /\ pc = "done"
  /\ feedEnabled[1] /\ fetch[1].st = "done"
  /\ feedEnabled[2] /\ fetch[2].st = "failed"
  /\ RecordIds(storageAtStart) = {FeedArticles(1)[1].id}
  /\ Len(delivered) = 1 /\ delivered[1].id = FeedArticles(1)[2].id
  /\ RecordIds(storage) = {FeedArticles(1)[1].id, FeedArticles(1)[2].id}

\* ---- C3
\* the batch's sendWithRetry threw: the call is over and no POST of it succeeded
C3_BatchExhausted ==
  /\ Len(articles) # 0
  /\ pc # "notifying"
  /\ send.ctx # "articles"
  /\ ~Posted("articles", TRUE)

\* C3: when the delivery of a non-empty batch has exhausted its retries the run
\* is on its way to Failed, it ends only with the delivery error thrown and
\* with notifyError called, whatever became of the notice.
C3_DeliveryFailureFailsRun ==
  C3_BatchExhausted =>
    /\ PostCount("articles", FALSE) = maxRetries
    /\ pc \in {"ucCatch", "cmdCatch", "sending", "sendWait", "failed"}
    /\ pc \in {"sending", "sendWait"} => send.ctx \in {"ucError", "cmdError"}
    /\ pc # "ucCatch" => notifyErrorCalls >= 1
    /\ error = "NotificationError:articles"
    /\ thrown = (IF pc = "failed" THEN "NotificationError:articles" ELSE NoError)
    /\ ~notifyResult.returned

\* the batch was sent and failed, every failure notice failed, the run has ended
C3_Witness ==
  /\ C3_BatchExhausted
  /\ pc = "failed"
  /\ Posted("articles", FALSE)
  /\ Posted("error", FALSE)
  /\ ~Posted("error", TRUE)

\* ---- C4
\* C4 (as claimed): a run whose append failed after a successful delivery ends
\* in Done, with no error thrown and a result returned.
C4_AppendFailureOnlyLogged ==
  (RunEnded /\ Posted("articles", TRUE) /\ Logged("append", FALSE)) =>
    /\ pc = "done"
    /\ thrown = NoError
    /\ notifyResult.returned /\ notifyResult.notified

\* ---- C5
\* C5: once cleanup has failed after a successful delivery and append, the run is
\* Done: no error is held or thrown, notifyError was not called, nothing but
\* the batch was posted, the result reports success and the file holds the
\* prior and the delivered ids.
C5_CleanupFailureOnlyLogged ==
  (Posted("articles", TRUE) /\ Logged("append", TRUE) /\ Logged("cleanup", FALSE)) =>
    /\ pc = "done"
    /\ error = NoError /\ thrown = NoError
    /\ notifyErrorCalls = 0
    /\ ~Posted("error", TRUE) /\ ~Posted("error", FALSE)
    /\ notifyResult = [notified |-> TRUE, articleCount |-> Len(articles),
                       savedToRepository |-> TRUE, returned |-> TRUE]
    /\ RecordIds(storage) = RecordIds(storageAtStart) \cup Ids(delivered)

\* cleanup failed in a run that added records to the file
C5_Witness ==
  /\ Logged("cleanup", FALSE)
  /\ pc = "done"
  /\ Len(storage) > Len(storageAtStart)

\* ---- C6
\* C6: once loading the read articles has failed the run is on its way to Failed
\* through the command's catch block, it ends only with the storage error
\* thrown, neither a batch nor a "no new articles" message is posted and the
\* file is not written.
C6_LoadFailureFatal ==
  Logged("load", FALSE) =>
    /\ pc \in {"cmdCatch", "sending", "sendWait", "failed"}
    /\ pc \in {"sending", "sendWait"} => send.ctx = "cmdError"
    /\ error = "StorageError:load"
    /\ thrown = (IF pc = "failed" THEN "StorageError:load" ELSE NoError)
    /\ \A i \in 1..Len(posts) : posts[i].kind = "error"
    /\ delivered = <<>>
    /\ storageLog = << <<"load", FALSE>> >>
    /\ storage = storageAtStart
    /\ ~notifyResult.returned

\* the load failed with articles fetched, and the run has ended
C6_Witness ==
  /\ Logged("load", FALSE)
  /\ pc = "failed"
  /\ Len(filteredArticles) > 0

\* ---- C7
\* the notify stage was entered with no new article
C7_NotifiedEmpty ==
  /\ Logged("load", TRUE)
  /\ pc \notin {"ranking", "notifying"}
  /\ Len(newArticles) = 0

\* C7: with no new article and skipNotifyIfEmpty set the run is Done at once:
\* nothing is posted, the file is neither appended to nor cleaned up, and the
\* result reports notified = false.
C7_SkipIfEmpty ==
  (C7_NotifiedEmpty /\ options.skipNotifyIfEmpty) =>
    /\ pc = "done"
    /\ posts = <<>>
    /\ storageLog = << <<"load", TRUE>> >>
    /\ storage = storageAtStart
    /\ notifyResult = [notified |-> FALSE, articleCount |-> 0,
                       savedToRepository |-> FALSE, returned |-> TRUE]
    /\ error = NoError /\ thrown = NoError

\* articles were fetched, none is new, the flag is set
C7_Witness ==
  /\ C7_NotifiedEmpty /\ options.skipNotifyIfEmpty
  /\ Len(fetchedArticles) > 0
  /\ pc = "done"

\* ---- C8
\* C8: with no new article and skipNotifyIfEmpty not set only "no new articles"
\* messages are posted, by one sendWithRetry call: at most maxRetries POSTs, none
\* after a successful one; the run is Done only after exactly one successful
\* POST, and when all maxRetries POSTs failed it fails with the notification
\* error; the file is not written.
C8_NoArticlesMessage ==
  (C7_NotifiedEmpty /\ ~options.skipNotifyIfEmpty) =>
    /\ ~Posted("articles", TRUE) /\ ~Posted("articles", FALSE)
    /\ PostCount("noArticles", TRUE) + PostCount("noArticles", FALSE) <= maxRetries
    /\ PostCount("noArticles", TRUE) <= 1
    /\ \A i \in 1..Len(posts) :
         posts[i] = [kind |-> "noArticles", ok |-> TRUE] =>
           \A j \in (i + 1)..Len(posts) : posts[j].kind # "noArticles"
    /\ pc \in {"sending", "sendWait", "cmdCatch", "done", "failed"}
    /\ pc = "done" =>
         /\ Len(posts) > 0
         /\ posts[Len(posts)] = [kind |-> "noArticles", ok |-> TRUE]
         /\ notifyResult = [notified |-> TRUE, articleCount |-> 0,
                            savedToRepository |-> FALSE, returned |-> TRUE]
         /\ thrown = NoError /\ notifyErrorCalls = 0
    /\ (send.ctx # "noArticles" /\ ~Posted("noArticles", TRUE)) =>
         /\ PostCount("noArticles", FALSE) = maxRetries
         /\ pc # "done"
         /\ error = "NotificationError:noArticles"
         /\ pc = "failed" => thrown = "NotificationError:noArticles"
    /\ storageLog = << <<"load", TRUE>> >>
    /\ storage = storageAtStart

\* the message was retried and every POST failed: the run has failed
C8_Witness ==
  /\ C7_NotifiedEmpty /\ ~options.skipNotifyIfEmpty
  /\ pc = "failed"
  /\ PostCount("noArticles", FALSE) = 2

\* ---- C9
\* the feeds are loaded and the read articles have not been asked for yet
C9_FetchStage ==
  /\ run >= 1
  /\ pc # "loadConfig"
  /\ error # "ConfigurationError"
  /\ storageLog = <<>>

\* C9: the fetch stage cannot fail the run: until the read articles are asked
\* for the run holds no error and posts nothing, while feeds are being fetched a
\* step of the stage is possible, and the stage ends in filtering, with no
\* article exactly when no enabled feed succeeded.
C9_FetchNeverFails ==
  C9_FetchStage =>
    /\ pc \in {"fetchStart", "fetching", "filtering", "excluding"}
    /\ error = NoError /\ thrown = NoError
    /\ notifyErrorCalls = 0 /\ posts = <<>>
    /\ pc = "fetching" =>
         ENABLED (FetchJoin \/ \E f \in Feeds : FetchOk(f) \/ FetchFail(f) \/ FetchRetry(f))
    /\ pc = "filtering" =>
         (fetchedArticles = <<>>
            <=> ~\E f \in Feeds : feedEnabled[f] /\ fetch[f].st = "done")

\* every enabled feed exhausted its retries and the run goes on with no article
C9_Witness ==
  /\ pc = "excluding"
  /\ \A f \in Feeds : feedEnabled[f] /\ fetch[f].st = "failed"
  /\ maxRetries >= 1
  /\ fetchedArticles = <<>> /\ filteredArticles = <<>>
  /\ error = NoError

\* ---- C10
\* C10: what fetchEnabledFeeds returns holds every article of every enabled
\* feed that succeeded and nothing else: nothing of a disabled feed, which is
\* not fetched at all, and nothing for a feed that exhausted its retries, whose
\* failure raises no error.
C10_FetchAllPartial ==
  pc = "filtering" =>
    /\ \A f \in Feeds :
         (feedEnabled[f] /\ fetch[f].st = "done") =>
           \A i \in 1..Len(FeedArticles(f)) : Occurs(FeedArticles(f)[i], fetchedArticles)
    /\ \A j \in 1..Len(fetchedArticles) :
         LET f == fetchedArticles[j].feedName
         IN  feedEnabled[f] /\ fetch[f].st = "done" /\ Occurs(fetchedArticles[j], FeedArticles(f))
    /\ Len(fetchedArticles) =
         Cardinality({<<f, i>> \in FeedPositions :
            feedEnabled[f] /\ fetch[f].st = "done"})
    /\ \A f \in Feeds : feedEnabled[f] <=> fetch[f].st \in {"done", "failed"}
    /\ error = NoError

\* one feed exhausted its retries, the other succeeded, and its articles are returned
C10_Witness ==
  /\ pc = "filtering"
  /\ feedEnabled[1] /\ fetch[1].st = "failed"
  /\ feedEnabled[2] /\ fetch[2].st = "done"
  /\ fetchedArticles = FeedArticles(2)

\* ---- C11
\* a fetchFeed call that has neither returned nor thrown: at an attempt, or in
\* the delay before the next one
InFlight(f) == fetch[f].st \in {"running", "waiting"}

\* C11: the fetchFeed calls of a run are in flight together and the pipeline
\* passes the join only when none is: from the filter stage on no fetch is at an
\* attempt or in a backoff wait, every enabled feed has returned or given up and
\* no disabled feed was started; and a sendWithRetry call is in progress only
\* while the run is at that call, so that no later step overlaps it.
C11_FetchBarrier ==
  /\ \A f \in Feeds : InFlight(f) => pc = "fetching"
  /\ pc \notin {"idle", "loadConfig", "fetchStart", "fetching"} =>
       \A f \in Feeds :
         /\ feedEnabled[f] => fetch[f].st \in {"done", "failed"}
         /\ ~feedEnabled[f] => fetch[f].st = "idle"
  /\ send.ctx # "none" <=> pc \in {"sending", "sendWait"}
  /\ sendLog.result = "pending" <=> pc \in {"sending", "sendWait"}
  /\ pc = "sendWait" <=> (sendLog.result = "pending" /\ Len(sendLog.tries) = send.attempt)

\* one fetch has returned while the other is in its backoff wait, and the run
\* is still at the join
C11_Witness ==
  /\ pc = "fetching"
  /\ fetch[1].st = "done"
  /\ fetch[2].st = "waiting"
  /\ fetch[2].wait = RetryDelayMs

\* both fetches are at an attempt at the same time
C11_Concurrent == InFlight(1) /\ InFlight(2)

Tries == sendLog.tries
AllFailed(tries) == \A i \in 1..Len(tries) : tries[i].status # "ok"

\* C13: with maxRetries = m >= 1 a sendWithRetry call makes at most m POSTs,
\* whether they fail with 429 or otherwise; it returns exactly when a POST
\* succeeded, which is then its last one, and throws exactly when m POSTs were
\* made and all failed (at once, or after the wait that a last 429 response
\* asks for); what it throws reaches the catch block of its caller's
\* caller when the message is the batch or the "no new articles" message.
C13_SendRetry ==
  (maxRetries >= 1 /\ sendLog.ctx # "none") =>
    LET n == Len(Tries)
        L == Len(posts)
    IN  /\ n <= maxRetries
        /\ n <= L
        /\ \A i \in 1..n :
             /\ Tries[i].attempt = i
             /\ posts[L - n + i] = [kind |-> Kind(sendLog.ctx),
                                    ok |-> Tries[i].status = "ok"]
             /\ Tries[i].status = "ok" => i = n
        /\ sendLog.result = "returned" <=> (n >= 1 /\ Tries[n].status = "ok")
        /\ sendLog.result = "thrown" => (n = maxRetries /\ AllFailed(Tries))
        /\ (n = maxRetries /\ AllFailed(Tries) /\ sendLog.result # "thrown") =>
             \* the wait a 429 response asks for, after which the loop ends
             /\ pc = "sendWait"
             /\ Tries[n].status = "429"
             /\ send.attempt = maxRetries
        /\ sendLog.result \in {"pending", "returned", "thrown"}
        /\ (sendLog.result = "thrown" /\ sendLog.ctx = "articles") =>
             (pc = "ucCatch" /\ error = "NotificationError:articles")
        /\ (sendLog.result = "thrown" /\ sendLog.ctx = "noArticles") =>
             (pc = "cmdCatch" /\ error = "NotificationError:noArticles")
        /\ (sendLog.result = "returned" /\ sendLog.ctx = "articles") =>
             /\ delivered = domainArticles
             /\ error # "NotificationError:articles"
             /\ pc \in {"saving", "cleanup", "done", "ucCatch"}

\* the batch was sent three times, a rate-limited POST and two other failures,
\* and the call threw
C13_Witness ==
  /\ maxRetries = MaxAttempts
  /\ sendLog.ctx = "articles"
  /\ sendLog.result = "thrown"
  /\ Len(Tries) = MaxAttempts
  /\ Tries[1].status = "429"
  /\ Tries[2].status = "error"
  /\ Tries[MaxAttempts].status = "error"
  /\ pc = "ucCatch"

OriginalError ==
  IF Logged("load", FALSE) THEN "StorageError:load"
  ELSE IF Logged("append", FALSE) THEN "StorageError:append"
  ELSE IF ~Logged("load", TRUE) THEN "ConfigurationError"
  ELSE IF Len(articles) = 0 THEN "NotificationError:noArticles"
  ELSE "NotificationError:articles"

\* C15: notifyError never raises: whether its sendWithRetry call returned or
\* threw after all its POSTs failed, the catch block that called it goes on to
\* rethrow the error it had caught: after the notice of
\* NotifyArticlesUseCase.execute that error reaches DailyNewsCommand.execute,
\* and after the notice of DailyNewsCommand.execute it is the error thrown.
C15_NotifyErrorNeverRaises ==
  /\ (sendLog.ctx = "ucError" /\ sendLog.result \in {"returned", "thrown"}) =>
       /\ pc = "cmdCatch"
       /\ error = OriginalError
       /\ error \in {"NotificationError:articles", "StorageError:append"}
       /\ thrown = NoError
  /\ (sendLog.ctx = "cmdError" /\ sendLog.result \in {"returned", "thrown"}) =>
       /\ pc = "failed"
       /\ error = OriginalError
       /\ thrown = OriginalError
  /\ pc = "failed" => (sendLog.ctx = "cmdError" /\ thrown = OriginalError)

\* every POST of the notice of NotifyArticlesUseCase.execute failed, and the
\* storage error it reported goes on to DailyNewsCommand.execute
C15_Witness ==
  /\ sendLog.ctx = "ucError"
  /\ sendLog.result = "thrown"
  /\ Len(Tries) = MaxAttempts
  /\ AllFailed(Tries)
  /\ pc = "cmdCatch"
  /\ error = "StorageError:append"

\* ---- C16
\* the storage calls of the run, by operation
OpCount(op) == Cardinality({i \in 1..Len(storageLog) : storageLog[i][1] = op})
StorageOrder == <<"load", "append", "cleanup">>

\* C16: the stages of a run come in the order fetch, filter, read of the file,
\* sort and limit, send, append, cleanup: nothing is read from the file or
\* posted before the filter stage is over, nothing is posted before the file
\* was read, the append is requested only after the POST of the batch
\* succeeded, and the cleanup only after the append returned.
C16_StageOrder ==
  /\ \A i \in 1..Len(storageLog) : i <= Len(StorageOrder) /\ storageLog[i][1] = StorageOrder[i]
  /\ pc \in {"loadConfig", "fetchStart", "fetching", "filtering", "excluding"} =>
       (storageLog = <<>> /\ posts = <<>> /\ newArticles = <<>> /\ articles = <<>>)
  /\ pc \in {"loadConfig", "fetchStart", "fetching", "filtering"} => filteredArticles = <<>>
  /\ pc \in {"loadConfig", "fetchStart", "fetching"} => fetchedArticles = <<>>
  /\ pc \in {"ranking", "notifying"} =>
       (storageLog = << <<"load", TRUE>> >> /\ posts = <<>>)
  /\ pc = "ranking" => articles = <<>>
  /\ (Posted("articles", TRUE) \/ Posted("articles", FALSE)
        \/ Posted("noArticles", TRUE) \/ Posted("noArticles", FALSE)) =>
       Logged("load", TRUE)
  /\ (Logged("append", TRUE) \/ Logged("append", FALSE) \/ pc = "saving") =>
       /\ Posted("articles", TRUE)
       /\ Len(delivered) > 0
       /\ delivered = domainArticles
  /\ (Logged("cleanup", TRUE) \/ Logged("cleanup", FALSE) \/ pc = "cleanup") =>
       Logged("append", TRUE)
  /\ storage # storageAtStart => Logged("append", TRUE)

\* a run that went through every stage: the batch was delivered at the second
\* POST, then appended, then the file was cleaned up
C16_Witness ==
  /\ pc = "done"
  /\ posts = << [kind |-> "articles", ok |-> FALSE], [kind |-> "articles", ok |-> TRUE] >>
  /\ storageLog = << <<"load", TRUE>>, <<"append", TRUE>>, <<"cleanup", TRUE>> >>
  /\ Len(fetchedArticles) > Len(filteredArticles)
  /\ Len(filteredArticles) > 0

\* ---- C17
\* a fetchFeed call of the run has started
FetchStarted == \E f \in Feeds : fetch[f].st # "idle"

\* C17 (as claimed): the file is read once, before any fetch of the run
\* starts, and a run that ends Done has written it by exactly one append.
C17_AsClaimed ==
  /\ OpCount("load") <= 1
  /\ FetchStarted => OpCount("load") = 1
  /\ pc = "done" => OpCount("append") = 1

\* C17 (amended): the run reads the file for the exclusion exactly once, after
\* the fetch and the filter stage and before sorting: no read is made up to
\* the exclusion step and one has been made in every later stage; what it
\* excludes is what the file held when the run started.  The append is
\* requested at most once, only after the POST of a non-empty batch
\* succeeded, and a run that ends Done requested it exactly when it had
\* articles to send; the cleanup is requested at most once, after the append.
C17_ReadOnceAfterFilter ==
  /\ OpCount("load") <= 1
  /\ pc \in {"idle", "loadConfig", "fetchStart", "fetching", "filtering", "excluding"} =>
       OpCount("load") = 0
  /\ pc \in {"ranking", "notifying", "saving", "cleanup", "ucCatch", "done"} =>
       OpCount("load") = 1
  /\ (pc \in {"sending", "sendWait", "cmdCatch", "failed"} /\ error # "ConfigurationError") =>
       OpCount("load") = 1
  /\ Logged("load", TRUE) =>
       /\ \A i \in 1..Len(newArticles) : newArticles[i].id \notin RecordIds(storageAtStart)
       /\ \A i \in 1..Len(filteredArticles) :
            filteredArticles[i].id \notin RecordIds(storageAtStart) =>
              Occurs(filteredArticles[i], newArticles)
  /\ OpCount("append") <= 1
  /\ OpCount("append") = 1 => (Posted("articles", TRUE) /\ Len(articles) > 0)
  /\ pc = "done" => (OpCount("append") = 1 <=> Len(articles) > 0)
  /\ OpCount("cleanup") <= 1
  /\ OpCount("cleanup") = 1 => Logged("append", TRUE)

\* both feeds were fetched before the file was read, and the run ended Done
\* having read the file once, appended once and cleaned up once
C17_Witness ==
  /\ pc = "done"
  /\ \A f \in Feeds : fetch[f].st = "done"
  /\ OpCount("load") = 1
  /\ OpCount("append") = 1
  /\ OpCount("cleanup") = 1
  /\ storage # storageAtStart

\* ---- C18
\* C18 (as claimed): the file, empty at first and changed by appendArticles
\* and cleanupOldArticles only, never holds two records with the same id.
C18_NoDuplicateRecords ==
  \A i, j \in 1..Len(storage) : storage[i].id = storage[j].id => i = j

\* ---- C19
\* the articles the run holds, and the records of the file read back
RunArticles == Range(fetchedArticles) \cup Range(loadArticles(storage))

\* C19 (as claimed): two articles have the same id exactly when they have the
\* same url and the same title, whatever their other fields, and a record read
\* back from the file has the id it was stored with.
C19_IdIffUrlAndTitle ==
  /\ \A a, b \in RunArticles :
       (a.url = b.url /\ a.title = b.title) <=> a.id = b.id
  /\ \A i \in 1..Len(storage) : fromPlainObject(storage[i]).id = storage[i].id

\* the part of C19 that holds: the same url and title give the same id,
\* whatever the other fields, also after a reload
C19_SameUrlTitleSameId ==
  /\ \A a, b \in RunArticles :
       (a.url = b.url /\ a.title = b.title) => a.id = b.id
  /\ \A i \in 1..Len(storage) : fromPlainObject(storage[i]).id = storage[i].id

\* ---- C20
\* the articles of items whose id is not in seenIds, in order
Unseen(items, seenIds) ==
  LET keep == {i \in 1..Len(items) : items[i].id \notin seenIds}
  IN  [k \in 1..Cardinality(keep) |->
         items[CHOOSE i \in keep : Cardinality({j \in keep : j <= i}) = k]]

\* C20: excludeReadArticles returns the articles whose id is not in the file,
\* each as often as it was given and in the order given: after the exclusion
\* step newArticles holds, for the k-th position of filteredArticles whose id
\* is unread, that article at place k, and nothing else.
C20_ExcludeExactly ==
  pc = "ranking" =>
    LET seenIds == RecordIds(storageAtStart)
        keep == {i \in 1..Len(filteredArticles) : filteredArticles[i].id \notin seenIds}
    IN  /\ Len(newArticles) = Cardinality(keep)
        /\ \A i \in keep :
             newArticles[Cardinality({j \in keep : j <= i})] = filteredArticles[i]
        /\ newArticles = Unseen(filteredArticles, seenIds)

\* the file holds the id of X, the input is [X, Y], the output is [Y]
C20_Witness ==
  /\ pc = "ranking"
  /\ Len(storageAtStart) = 1
  /\ Len(filteredArticles) = 2
  /\ filteredArticles[1].id = storageAtStart[1].id
  /\ filteredArticles[2].id # storageAtStart[1].id
  /\ newArticles = <<filteredArticles[2]>>

\* two unread articles with the same id are both kept
C20_SameIdKept ==
  /\ pc = "ranking"
  /\ Len(filteredArticles) >= 2
  /\ filteredArticles[1].id = filteredArticles[2].id
  /\ filteredArticles[1] # filteredArticles[2]
  /\ Len(newArticles) = Len(filteredArticles)

\* ---- C21
\* the keyword is a substring of the searchable text of the article, as the
\* filter held folds and builds them
IsSubstringOfText(keyword, article) ==
  matchKeyword(buildSearchableText(article, filter), keyword, filter.caseSensitive)

Matching(article) ==
  IF filter.matchStrategy = "OR"
  THEN \E i \in 1..Len(filter.keywords) : IsSubstringOfText(filter.keywords[i], article)
  ELSE \A i \in 1..Len(filter.keywords) : IsSubstringOfText(filter.keywords[i], article)

\* C21: once filterArticles has returned for a filter of at least one keyword,
\* its result is the input articles that match, in their input order, where an
\* article matches under OR iff at least one keyword is a substring of its
\* searchable text and under AND iff every keyword is.
C21_FilterAnyAll ==
  (pc = "done" /\ filter # NoFilter) =>
     /\ Len(filter.keywords) >= 1
     /\ filteredArticles = SelectSeq(fetchedArticles, Matching)

\* AND with two keywords drops an article that has one of them and keeps one
\* that has both
C21_Witness ==
  /\ pc = "done"
  /\ filter # NoFilter
  /\ filter.matchStrategy = "AND"
  /\ Len(filter.keywords) = 2
  /\ filter.keywords[1] # filter.keywords[2]
  /\ Len(fetchedArticles) = 2
  /\ Len(filteredArticles) = 1
  /\ \E i \in 1..2 : /\ fetchedArticles[i] # filteredArticles[1]
                      /\ IsSubstringOfText(filter.keywords[1], fetchedArticles[i])

\* ---- C22
SearchFields == <<"title", "description", "content">>

EnabledField(name) ==
  CASE name = "title" -> filter.searchInTitle
    [] name = "description" -> filter.searchInDescription
    [] OTHER -> filter.searchInContent

\* the fields of the article that the filter held enables and the article has,
\* in the order title, description, content, joined by one space
SearchableText(article) ==
  LET names == SelectSeq(SearchFields,
                         LAMBDA name : EnabledField(name) /\ article[name] # None)
  IN  Join([i \in 1..Len(names) |-> article[names[i]]], <<" ">>)

\* folded when the filter held is not case sensitive, as written when it is
Folded(s) == IF filter.caseSensitive THEN s ELSE ToLowerCase(s)

KeywordFound(keyword, article) ==
  Includes(Folded(SearchableText(article)), Folded(keyword))

\* C22: once filterArticles has returned, the text searched in each input
\* article is its enabled and present fields in the order title, description,
\* content joined by one space, and the article is in the result iff the
\* keywords are found in that text as the strategy asks, text and keyword both
\* folded to lower case when caseSensitive is false and neither when it is
\* true; so a field that is disabled adds no match.
C22_SearchableText ==
  (pc = "done" /\ filter # NoFilter) =>
     \A i \in 1..Len(fetchedArticles) :
        LET a == fetchedArticles[i]
            found == [k \in 1..Len(filter.keywords) |-> KeywordFound(filter.keywords[k], a)]
        IN  /\ buildSearchableText(a, filter) = SearchableText(a)
            /\ Occurs(a, filteredArticles) <=>
                  IF filter.matchStrategy = "OR"
                  THEN \E k \in 1..Len(found) : found[k]
                  ELSE \A k \in 1..Len(found) : found[k]

\* a case-sensitive filter on title and description with the keyword "go":
\* an article titled "Go" whose content is "go" is not in the result; and it
\* is, to a filter that is not case sensitive
C22_Witness ==
  /\ pc = "done"
  /\ filter # NoFilter
  /\ filter.keywords = << <<"g", "o">> >>
  /\ filter.caseSensitive
  /\ filter.searchInTitle
  /\ ~filter.searchInContent
  /\ fetchedArticles = << Article(<<"G", "o">>, <<"a">>, 1, 1, <<"R", "s">>, <<"g", "o">>) >>
  /\ filteredArticles = <<>>
  /\ matchesFilter(fetchedArticles[1], [filter EXCEPT !.caseSensitive = FALSE])

\* ---- C23
\* C23: with an empty keyword list the filter step of the use case hands on
\* the fetched articles as they are, in order, and raises no error; a caller
\* that constructs an ArticleFilter gets an error, and no filter, exactly when
\* its keyword list is empty.
C23_EmptyKeywordsPassThrough ==
  /\ (pc = "excluding" /\ keywords = <<>>) =>
        /\ filteredArticles = fetchedArticles
        /\ error = NoError
        /\ thrown = NoError
  /\ pc \in {"failed", "filterArticles", "done"} =>
        /\ (keywords = <<>>) <=> (pc = "failed" /\ error = "Error:keywords")
        /\ (keywords = <<>>) <=> (filter = NoFilter)

\* the filter step has run on two articles with no keyword
C23_Witness ==
  /\ pc = "excluding"
  /\ keywords = <<>>
  /\ Len(fetchedArticles) = 2
  /\ fetchedArticles[1] # fetchedArticles[2]
  /\ filteredArticles = fetchedArticles

\* the constructor has rejected an empty keyword list
C23_Rejected == pc = "failed" /\ keywords = <<>> /\ error = "Error:keywords"

\* ---- C24
\* the articles handed to sortByPublishedDate: the filtered articles that the
\* file read at step 3 does not hold
RankInput == Unseen(filteredArticles, RecordIds(storageAtStart))

\* ranking has returned
Ranked == Logged("load", TRUE) /\ pc \notin {"filtering", "excluding", "ranking"}

IndexPermutations(n) == {p \in [1..n -> 1..n] : \A i, j \in 1..n : p[i] = p[j] => i = j}

\* out is input rearranged by p, latest first, articles of one date in their
\* input order
StableDescending(input, out, p) ==
  /\ \A i \in 1..Len(out) : out[i] = input[p[i]]
  /\ \A i, j \in 1..Len(out) :
        i < j => \/ out[i].publishedAt > out[j].publishedAt
                 \/ out[i].publishedAt = out[j].publishedAt /\ p[i] < p[j]

\* C24: what sortByPublishedDate returns is a permutation of the articles it
\* was given, sorted by publishedAt descending, in which articles of equal
\* publishedAt keep their input order.
C24_RankStableDescending ==
  Ranked =>
     /\ Len(newArticles) = Len(RankInput)
     /\ \E p \in IndexPermutations(Len(RankInput)) : StableDescending(RankInput, newArticles, p)

\* three articles ranked, the oldest given first and two different articles of
\* one date after it
C24_Witness ==
  /\ Ranked
  /\ Len(RankInput) = 3
  /\ RankInput[1].publishedAt < RankInput[2].publishedAt
  /\ RankInput[2].publishedAt = RankInput[3].publishedAt
  /\ RankInput[2].id # RankInput[3].id
  /\ newArticles = <<RankInput[2], RankInput[3], RankInput[1]>>

\* ---- C25
\* C25 (as claimed): after sortByPublishedDate and limitArticles have returned,
\* the array that was passed to sortByPublishedDate, newArticles, holds the
\* articles it held before the call, in the same order.
C25_RankLimitPure == Ranked => newArticles = RankInput

\* the part that holds: limitArticles leaves the array it is given, the sorted
\* one, as it was, also when it returns fewer articles than the array holds
C25_LimitPure ==
  Ranked => /\ newArticles = sortByPublishedDate(RankInput)
            /\ Len(articles) <= Len(newArticles)

\* the cap has cut the batch and the array given to limitArticles is whole
C25_LimitCut == Ranked /\ Len(articles) < Len(newArticles)

\* ---- C26
\* the first n articles of items, all of them when there are fewer
FirstN(items, n) == SubSeq(items, 1, IF n < Len(items) THEN n ELSE Len(items))

\* C26 (as claimed): the articles handed to the notification use case are the
\* first min(n, k) of the k ranked new articles when maxArticles is a number
\* n >= 0, and all k when maxArticles is not given.
C26_CapFirstN ==
  Ranked =>
     articles = fromDomainList(IF options.capGiven
                               THEN FirstN(newArticles, options.maxArticles)
                               ELSE newArticles)

\* the part that holds: the same for n >= 1 and for no cap
C26_CapPositive ==
  (Ranked /\ ~(options.capGiven /\ options.maxArticles = 0)) =>
     articles = fromDomainList(IF options.capGiven
                               THEN FirstN(newArticles, options.maxArticles)
                               ELSE newArticles)

\* ---- C27
\* the smaller of two numbers
Min(a, b) == IF a < b THEN a ELSE b

\* C27: the message posted for a batch of n >= 1 articles carries one summary
\* embed, which reports n, followed by exactly min(n, 9) article embeds, those
\* of the first min(n, 9) articles of the batch in batch order; so it never has
\* more than 10 embeds.
C27_PayloadBlocks ==
  (Len(posts) > 0 /\ posts[1].kind = "articles") =>
     LET n == Len(domainArticles)
         embeds == message.embeds
     IN  /\ n >= 1
         /\ Len(embeds) = 1 + Min(n, 9)
         /\ Len(embeds) <= 10
         /\ embeds[1].kind = "summary"
         /\ embeds[1].count = n
         /\ message.count = n
         /\ \A i \in 1..Min(n, 9) :
               /\ embeds[i + 1].kind = "article"
               /\ embeds[i + 1].url = domainArticles[i].url
               /\ embeds[i + 1].title = domainArticles[i].title
               /\ embeds[i + 1].feedName = domainArticles[i].feedName
               /\ embeds[i + 1].publishedAt = domainArticles[i].publishedAt

\* a batch of more than nine articles has been posted
C27_Witness ==
  /\ Posted("articles", TRUE)
  /\ Len(domainArticles) > 9
  /\ Len(message.embeds) = 10

\* ---- C28
\* the items that have a title and a link, in order
WellFormed(items) == SelectSeq(items, LAMBDA it : it.title # None /\ it.link # None)

\* the publish timestamp an item carries, None when it carries none
Timestamp(it) ==
  IF it.isoDate # None THEN it.isoDate
  ELSE IF it.pubDate # None THEN it.pubDate ELSE it.published

\* parse has returned for feed 1 in the fetch stage
Parsed(f) ==
  /\ pc = "fetching"
  /\ fetch[f].st = "done"
  /\ Len(fetchLog[f]) > 0
  /\ fetchLog[f][Len(fetchLog[f])].ok

\* C28: when the parse of a feed returns, it returns one article for each item
\* that has both a title and a link, in item order, whatever the other items
\* are; the article of an item whose timestamp is absent or is no date has the
\* current time as publishedAt, any other the date its timestamp spells.
C28_NormalizeKeepsGoing ==
  \A f \in Feeds :
     Parsed(f) =>
        LET kept == WellFormed(feedItems[f])
        IN  /\ Len(results[f]) = Len(kept)
            /\ \A i \in 1..Len(kept) :
                  /\ results[f][i].title = kept[i].title
                  /\ results[f][i].url = kept[i].link
                  /\ results[f][i].feedName = f
                  /\ results[f][i].publishedAt =
                        IF Timestamp(kept[i]) = None \/ ParseDate(Timestamp(kept[i])) = NaN
                        THEN now ELSE ParseDate(Timestamp(kept[i]))

\* the feed served an item without title before one whose date is no date:
\* the first is dropped and the second is returned, published now
C28_Witness ==
  /\ Parsed(1)
  /\ Len(feedItems[1]) = 2
  /\ feedItems[1][1].title = None
  /\ feedItems[1][2].pubDate = <<"x">>
  /\ Len(results[1]) = 1
  /\ results[1][1].url = feedItems[1][2].link
  /\ results[1][1].publishedAt = now

\* ---- C29
\* the file the cleanup of this run found: the file at the start of the run
\* with the delivered batch appended
FileBeforeCleanup == appendArticles(storageAtStart, domainArticles)

\* the cleanup of this run has returned
CleanedUp == pc = "done" /\ Logged("cleanup", TRUE)

\* C29: after a cleanup with a retention of RetentionDays days the file holds
\* the records it held before whose publishedAt is not earlier than now minus
\* RetentionDays, each as it was and in the same order, and no other record.
C29_PruneExactly ==
  CleanedUp =>
     storage = SelectSeq(FileBeforeCleanup,
                         LAMBDA r : ~(r.publishedAt < now - RetentionDays))

\* a cleanup has removed a record and kept one published at the cutoff
C29_Witness ==
  /\ CleanedUp
  /\ Len(storage) < Len(FileBeforeCleanup)
  /\ \E i \in 1..Len(storage) : storage[i].publishedAt = now - RetentionDays

\* ---- C30
\* the place of an event in the log of reads and writes, 0 when it is not there
At(p, ev) ==
  IF \E i \in 1..Len(callLog) : callLog[i] = <<p, ev>>
  THEN CHOOSE i \in 1..Len(callLog) : callLog[i] = <<p, ev>>
  ELSE 0

BothReturned == calls # NoCalls /\ \A p \in Procs : calls[p].st = "returned"

\* the file lacks an id that the appendArticles call of p added to it
LostAppendOf(p) ==
  /\ calls[p].op = "append"
  /\ \E id \in calls[p].wrote : id \notin RecordIds(storage)

\* q read the file before p wrote it and wrote it after
Overwrote(q, p) ==
  /\ At(q, "read") > 0
  /\ At(q, "read") < At(p, "write")
  /\ At(p, "write") < At(q, "write")

\* C30: nothing orders the calls of two runs on the file, and an id is lost
\* only through that: when both calls have returned and the file lacks an id
\* that the appendArticles call of one run added, the call of the other run
\* read the file before that write and wrote it afterwards.  Such a state is
\* reached, by two appendArticles calls and by an appendArticles and a
\* cleanupOldArticles call.
C30_LostOnlyByRace ==
  BothReturned =>
     \A p \in Procs :
        LostAppendOf(p) => \E q \in Procs \ {p} : Overwrote(q, p)

\* two appendArticles calls have returned and the file lacks an id that one of
\* them added
C30_Witness ==
  /\ BothReturned
  /\ \A p \in Procs : calls[p].op = "append"
  /\ \E p \in Procs : LostAppendOf(p)

\* the same with an appendArticles and a cleanupOldArticles call
C30_LostToCleanup ==
  /\ BothReturned
  /\ \E p, q \in Procs : /\ calls[q].op = "cleanup"
                          /\ LostAppendOf(p)
                          /\ Overwrote(q, p)

\* ---- C31
\* the errors the claim calls fatal: configuration error, failure to load the
\* read articles, a delivery whose attempts are exhausted
FatalErrors ==
  {"ConfigurationError", "StorageError:load", "NotificationError:articles",
   "NotificationError:noArticles"}

\* C31 (as claimed): a run that has ended exits with a non-zero code iff one of
\* the fatal errors left DailyNewsCommand.execute, and with 0 in every other
\* case.
C31_ExitCode ==
  RunEnded => /\ (exitCode # 0) <=> (thrown \in FatalErrors)
              /\ (thrown \notin FatalErrors) => exitCode = 0

\* the part that holds: the exit code is non-zero iff an error left execute,
\* and the errors that leave it are the fatal ones and the append failure;
\* feeds that failed and a cleanup that failed leave none
C31_ExitCodeOfThrown ==
  RunEnded => /\ (exitCode # 0) <=> (thrown # NoError)
              /\ thrown \in FatalErrors \cup {NoError, "StorageError:append"}

\* a run in which every feed failed and one in which the cleanup failed have
\* ended with exit code 0
C31_ExitZero == RunEnded /\ exitCode = 0 /\ Logged("cleanup", FALSE)

\* ---- C32
\* C32 (as claimed): a run calls DiscordNotifier.notifyError at most once.
C32_SingleFailureNotice == notifyErrorCalls <= 1

\* what holds: it is called at most twice, and twice only for an error caught
\* in the try block of NotifyArticlesUseCase.execute, which both catch blocks
\* report
C32_NoticePerCatch ==
  /\ notifyErrorCalls <= 2
  /\ notifyErrorCalls = 2 =>
        error \in {"NotificationError:articles", "StorageError:append"}

\* the delivery of a batch failed and the second notice has been started
C32_TwoNotices ==
  notifyErrorCalls = 2 /\ error = "NotificationError:articles"

\* ---- C33
\* C33 (as claimed): sendWithRetry does not wait after its last permitted
\* attempt has failed, with status 429 or otherwise: the attempt numbered
\* maxRetries is followed by no delay.
C33_NoWaitAfterLast ==
  /\ \A i \in 1..Len(Tries) :
        (Tries[i].attempt = maxRetries /\ Tries[i].status # "ok") => ~Tries[i].waited
  /\ pc = "sendWait" => send.attempt < maxRetries

\* the part that holds: no wait after a last attempt that failed otherwise
\* than with status 429
C33_NoWaitAfterLastError ==
  \A i \in 1..Len(Tries) :
     (Tries[i].attempt = maxRetries /\ Tries[i].status = "error") => ~Tries[i].waited

\* the last permitted attempt got status 429 and the call is waiting the
\* seconds the retry-after header names
C33_WaitsAfterLast ==
  /\ pc = "sendWait"
  /\ send.attempt = maxRetries
  /\ send.wait = RetryAfterSec * 1000
  /\ Tries[Len(Tries)].status = "429"

\* ---- C34
\* fetchFeed has thrown FeedFetchError for the feed / sendWithRetry has thrown
FetchGaveUp(f) == pc = "fetching" /\ fetch[f].st = "failed"
SendGaveUp == sendLog.result = "thrown"

\* C34 (as claimed): for every maxRetries, 0 included, fetchFeed has called the
\* parser at least once when it reports a failure, and sendWithRetry has made
\* at least one POST when it reports one.
C34_AtLeastOneAttempt ==
  /\ \A f \in Feeds : FetchGaveUp(f) => Len(fetchLog[f]) >= 1
  /\ SendGaveUp => Len(Tries) >= 1

\* the part that holds: the same for maxRetries >= 1
C34_AttemptWhenPositive ==
  maxRetries >= 1 =>
     /\ \A f \in Feeds : FetchGaveUp(f) => Len(fetchLog[f]) >= 1
     /\ SendGaveUp => Len(Tries) >= 1

\* with maxRetries = 0 a send was given up with no POST made in the run
C34_NoAttempt == maxRetries = 0 /\ SendGaveUp /\ posts = <<>>

\* ---- C35
\* the ids of the articles that have an embed of their own in the message
ShownIds ==
  {generateId(message.embeds[i].url, message.embeds[i].title) :
     i \in 2..Len(message.embeds)}

\* the ids this run has added to the file
AddedIds == RecordIds(storage) \ RecordIds(storageAtStart)

\* C35 (as claimed): every id the run has appended to the read-articles file
\* is the id of an article with an embed of its own in the message that the
\* run delivered, whatever the size of the batch.
C35_SeenOnlyIfShown ==
  Logged("append", TRUE) => AddedIds \subseteq ShownIds

\* the part that holds: the same for batches of at most nine articles
C35_ShownUpToNine ==
  (Logged("append", TRUE) /\ Len(articles) <= MaxArticleEmbeds) =>
     AddedIds \subseteq ShownIds

\* a batch of ten has been delivered and recorded; the tenth has no embed
C35_TenthUnshown ==
  /\ Logged("append", TRUE)
  /\ Len(articles) = 10
  /\ articles[10].id \in AddedIds \ ShownIds

\* ---- C36
\* the delivery of the batch of this run has failed
BatchDeliveryFailed == error = "NotificationError:articles"

\* C36: from the moment the delivery of a non-empty batch has failed, the
\* read-articles file is as it was when the run started: the run neither
\* appends nor cleans up, so the file the next run reads is the same.
C36_FailedDeliveryKeepsFile ==
  BatchDeliveryFailed =>
     /\ storage = storageAtStart
     /\ ~Logged("append", TRUE)
     /\ ~Logged("append", FALSE)
     /\ ~Logged("cleanup", TRUE)
     /\ ~Logged("cleanup", FALSE)
     /\ \A i \in 1..Len(articles) : articles[i].id \notin RecordIds(storage)

\* a second run has failed in the delivery of its batch over a file that holds
\* a record older than the retention, which a cleanup would have removed
C36_Witness ==
  /\ pc = "failed"
  /\ BatchDeliveryFailed
  /\ Len(articles) > 0
  /\ storage = storageAtStart
  /\ \E i \in 1..Len(storage) : storage[i].publishedAt < now - RetentionDays

\* ---- C37
\* C37 (as claimed): the articles handed to the notification use case have
\* pairwise different ids, also when two feeds, or one feed twice, return an
\* article with the same url and title.
C37_NoSameIdInBatch ==
  \A i, j \in 1..Len(articles) : articles[i].id = articles[j].id => i = j

\* both feeds returned an article with the same url and title, and both
\* articles are in the batch that was delivered
C37_SameIdTwice ==
  /\ Len(delivered) = 2
  /\ delivered[1].id = delivered[2].id
  /\ delivered[1].feedName # delivered[2].feedName

\* ---- C38
\* the ranked new articles the cap has cut off
CutOff == SubSeq(newArticles, Len(articles) + 1, Len(newArticles))

\* the run has delivered a batch, recorded it and ended
Succeeded == pc = "done" /\ Logged("append", TRUE)

\* C38 (as claimed): after a successful run the ids the run has added to the
\* read-articles file are exactly the ids of the articles handed to delivery,
\* and the file holds the id of no new article that the cap has cut off.
C38_CutOffNotAppended ==
  Succeeded =>
     /\ AddedIds = Ids(articles)
     /\ \A i \in 1..Len(CutOff) : CutOff[i].id \notin RecordIds(storage)

\* the part that holds: the append writes the records of the batch handed to
\* delivery after the records the file had, and nothing else; what the run
\* adds is never the record of another article
C38_AppendsTheBatch ==
  /\ (pc = "cleanup" /\ Logged("append", TRUE)) =>
        storage = storageAtStart \o saveArticles(domainArticles)
  /\ Succeeded => AddedIds \subseteq Ids(articles)

\* the cap has cut an article off whose id is that of a delivered article of
\* another url and title, and the file holds it
C38_CutOffRecorded ==
  /\ Succeeded
  /\ Len(CutOff) = 1
  /\ CutOff[1].id \in RecordIds(storage)
  /\ CutOff[1].url # articles[1].url

\* ---- C39
\* the run has found no new article and has passed the ranking step
NoNewArticles == Ranked /\ Len(newArticles) = 0

\* the file holds a record older than the retention window
HoldsOldRecord ==
  \E i \in 1..Len(storage) : storage[i].publishedAt < now - RetentionDays

\* C39: a run that found no new article leaves the read-articles file as it
\* was at the start of the run, with skipNotifyIfEmpty or without: it hands no
\* article to delivery and requests neither the append nor the cleanup, so a
\* record older than the retention window stays in the file.
C39_NoNewKeepsFile ==
  NoNewArticles =>
     /\ Len(articles) = 0
     /\ storage = storageAtStart
     /\ OpCount("append") = 0
     /\ OpCount("cleanup") = 0

\* a run without new articles has ended after the "no new articles" message
\* was sent, and the file still holds a record older than the retention window
C39_Witness ==
  /\ NoNewArticles
  /\ pc = "done"
  /\ ~options.skipNotifyIfEmpty
  /\ Posted("noArticles", TRUE)
  /\ HoldsOldRecord

\* the same with skipNotifyIfEmpty: nothing was posted
C39_SkippedKeepsOld ==
  /\ NoNewArticles
  /\ pc = "done"
  /\ options.skipNotifyIfEmpty
  /\ Len(posts) = 0
  /\ HoldsOldRecord

\* ---- C40
\* C40: every run ends, returned or thrown, whatever the feeds, the webhook
\* and the file answer: the retry loops of fetchFeed and sendWithRetry, the
\* send of the failure notice included, give up after maxRetries attempts.
C40_RunEnds == <>RunEnded

\* the run has ended thrown after the send of the batch and the send of the
\* failure notice were each rate-limited at every one of MaxAttempts attempts
C40_Witness ==
  /\ pc = "failed"
  /\ maxRetries = MaxAttempts
  /\ PostCount("articles", FALSE) = MaxAttempts
  /\ PostCount("error", FALSE) >= MaxAttempts
  /\ Len(Tries) = MaxAttempts
  /\ \A i \in 1..Len(Tries) : Tries[i].status = "429"

====
